---- MODULE Spec2Model ----
(***************************************************************************)
(* A model of the `dogging` function-call logger (src/dogging).            *)
(*                                                                         *)
(* A guard (`dog`) is constructed from three phase specifications, is      *)
(* applied to a function (decoration) and the resulting wrapper is called. *)
(* The model follows dog.__init__, dog.__call__ and the wrapper closure of *)
(* src/dogging/dog.py, the parsing helpers of src/dogging/teeth.py and     *)
(* src/dogging/bone.py and the utilities of src/dogging/chew_toys.py.      *)
(*                                                                         *)
(* Strings are sequences of tokens.  A token stands for one character or   *)
(* for an unbroken run of identifier characters ("bar", "ret"), so that    *)
(* "{@ret}" is <<"{", "@", "ret", "}">>.  Python objects whose type the    *)
(* code inspects are records tagged with their type in the field t.        *)
(***************************************************************************)
EXTENDS FiniteSets, Integers, Sequences, TLC

VARIABLES
    plan,       \* the inputs of the run: constructor arguments, function, call
    dogs,       \* the dog instances constructed so far (their slots)
    init,       \* outcomes of the calls of dog.__init__, in order
    chain,      \* chain[1] is the original function, chain[i+1] wraps chain[i]
    deco,       \* outcomes of the calls of dog.__call__ (decorations), in order
    stack,      \* frames of the invocation in flight, innermost last
    records,    \* the calls of logger.log with what the sink made of each, and
                \* what the function body recorded
    clock,      \* the last value time() returned
    outcome,    \* what the caller of the outermost callable received
    cache,      \* done and ret of the run_once builders made at decoration
    threads     \* the invocations that run at the same time, one a thread

vars == <<plan, dogs, init, chain, deco, stack, records, clock, outcome,
          cache, threads>>

----------------------------------------------------------------------------
(* Python values *)

PyNone == [t |-> "NoneType"]
PyStr(s) == [t |-> "str", v |-> s]
PyInt(n) == [t |-> "int", v |-> n]
PyTuple(parts) == [t |-> "tuple", v |-> parts]
PyList(parts) == [t |-> "list", v |-> parts]
PyClass(cls) == [t |-> "type", v |-> cls]
PyFloat == [t |-> "float"]

\* logging.DEBUG, logging.INFO, logging.WARNING, logging.ERROR
DEBUG == 10
INFO == 20
WARNING == 30
ERROR == 40

\* Dictionaries are functions; update(d, more) is d.update(more).
EmptyDict == [k \in {} |-> ""]
update(d, more) == more @@ d

----------------------------------------------------------------------------
(* dog.py: prefixes and special arg-names *)

COMPUTED_ARG_PREFIX == ">"
SPECIAL_ARG_PREFIX == "@"
ARG_PATHNAME == <<SPECIAL_ARG_PREFIX, "pathname">>
ARG_LINE == <<SPECIAL_ARG_PREFIX, "line">>
ARG_LOGGER == <<SPECIAL_ARG_PREFIX, "logger">>
ARG_FUNC == <<SPECIAL_ARG_PREFIX, "func">>
ARG_TIME == <<SPECIAL_ARG_PREFIX, "time">>
ARG_RET == <<SPECIAL_ARG_PREFIX, "ret">>
ARG_ERR == <<SPECIAL_ARG_PREFIX, "err">>
ARG_TRACEBACK == <<SPECIAL_ARG_PREFIX, "traceback">>

ENTER_ARGS == {ARG_PATHNAME, ARG_LINE, ARG_LOGGER, ARG_FUNC}
EXIT_ARGS == {ARG_PATHNAME, ARG_LINE, ARG_LOGGER, ARG_FUNC, ARG_TIME, ARG_RET}
ERROR_ARGS == {ARG_PATHNAME, ARG_LINE, ARG_LOGGER, ARG_FUNC, ARG_TIME, ARG_RET,
               ARG_ERR, ARG_TRACEBACK}

Phases == <<"enter", "exit", "error">>
PhaseSet == {"enter", "exit", "error"}

----------------------------------------------------------------------------
(* string.Formatter.parse as used by teeth.get_format_arg_names            *)

Digits == {"0", "1"}

\* Position of the first brace of s at or after i, Len(s) + 1 when none.
RECURSIVE FirstBrace(_, _)
FirstBrace(s, i) ==
    IF i > Len(s) THEN i
    ELSE IF s[i] \in {"{", "}"} THEN i
    ELSE FirstBrace(s, i + 1)

\* Position of the "}" that closes a field opened before i (count braces
\* are open), 0 when the string ends first.
RECURSIVE MatchClose(_, _, _)
MatchClose(s, i, count) ==
    IF i > Len(s) THEN 0
    ELSE IF s[i] = "{" THEN MatchClose(s, i + 1, count + 1)
    ELSE IF s[i] = "}"
         THEN IF count = 1 THEN i ELSE MatchClose(s, i + 1, count - 1)
    ELSE MatchClose(s, i + 1, count)

\* Position of the first token of body that is in seps at or after i,
\* Len(body) + 1 when none.
RECURSIVE FirstOf(_, _, _)
FirstOf(body, seps, i) ==
    IF i > Len(body) THEN i
    ELSE IF body[i] \in seps THEN i
    ELSE FirstOf(body, seps, i + 1)

\* The text of a replacement field between its braces, split into the
\* field name, the conversion and the format spec.
parse_field(body) ==
    LET k == FirstOf(body, {":", "!"}, 1)
        after == SubSeq(body, k + 1, Len(body))
    IN  IF k > Len(body)
        THEN [ok |-> TRUE, field_name |-> body, conversion |-> <<>>]
        ELSE IF body[k] = ":"
        THEN [ok |-> TRUE, field_name |-> SubSeq(body, 1, k - 1),
              conversion |-> <<>>]
        ELSE IF after = <<>>
        THEN [ok |-> FALSE, field_name |-> <<>>, conversion |-> <<>>]
        ELSE IF Len(after) >= 2 /\ after[2] # ":"
        THEN [ok |-> FALSE, field_name |-> <<>>, conversion |-> <<>>]
        ELSE [ok |-> TRUE, field_name |-> SubSeq(body, 1, k - 1),
              conversion |-> <<after[1]>>]

\* Formatter.convert_field(0, conversion): None, "s" and "r" are known.
convert_field_ok(conversion) ==
    conversion = <<>> \/ conversion \in {<<"s">>, <<"r">>}

\* The replacement fields of format_string in order, each as parse_field
\* gives it; ok is FALSE when the string is rejected.
RECURSIVE formatter_parse(_, _)
formatter_parse(s, pos) ==
    IF pos > Len(s) THEN [ok |-> TRUE, fields |-> <<>>]
    ELSE
    LET j == FirstBrace(s, pos)
        bad == [ok |-> FALSE, fields |-> <<>>]
    IN  IF j > Len(s) THEN [ok |-> TRUE, fields |-> <<>>]
        ELSE IF s[j] = "}"
        THEN IF j < Len(s) /\ s[j + 1] = "}"
             THEN formatter_parse(s, j + 2)
             ELSE bad
        ELSE IF j = Len(s) THEN bad
        ELSE IF s[j + 1] = "{" THEN formatter_parse(s, j + 2)
        ELSE
        LET close == MatchClose(s, j + 1, 1)
        IN  IF close = 0 THEN bad
            ELSE
            LET field == parse_field(SubSeq(s, j + 1, close - 1))
                rest == formatter_parse(s, close + 1)
            IN  IF ~field.ok \/ ~rest.ok THEN bad
                ELSE [ok |-> TRUE, fields |-> <<field>> \o rest.fields]

----------------------------------------------------------------------------
(* bone.get_format_arg_name_from_field_name                                *)

\* get_integer of the formatter: all tokens are digits and there is one.
get_integer_ok(s) == s # <<>> /\ \A i \in 1..Len(s) : s[i] \in Digits

\* Iterating the rest of a field name (attribute and index accesses)
\* validates it.
RECURSIVE field_name_rest_ok(_)
field_name_rest_ok(r) ==
    IF r = <<>> THEN TRUE
    ELSE IF r[1] = "."
    THEN LET k == FirstOf(r, {".", "["}, 2)
         IN  k > 2 /\ field_name_rest_ok(SubSeq(r, k, Len(r)))
    ELSE IF r[1] = "["
    THEN LET k == FirstOf(r, {"]"}, 2)
         IN  k <= Len(r) /\ k > 2 /\ field_name_rest_ok(SubSeq(r, k + 1, Len(r)))
    ELSE FALSE

\* formatter_field_name_split: the part before the first "." or "[".
\* A part made of digits only comes back as an integer object; the model
\* keeps its digits and is_int_like recognises them.
get_format_arg_name_from_field_name(field_name) ==
    LET k == FirstOf(field_name, {".", "["}, 1)
    IN  [ok |-> field_name_rest_ok(SubSeq(field_name, k, Len(field_name))),
         arg_name |-> SubSeq(field_name, 1, k - 1)]

----------------------------------------------------------------------------
(* teeth.py *)

get_format_arg_names(format_string) ==
    LET parsed == formatter_parse(format_string, 1)
        split == [i \in 1..Len(parsed.fields) |->
                    get_format_arg_name_from_field_name(parsed.fields[i].field_name)]
    IN  IF /\ parsed.ok
           /\ \A i \in 1..Len(parsed.fields) :
                /\ convert_field_ok(parsed.fields[i].conversion)
                /\ split[i].ok
        THEN [ok |-> TRUE,
              names |-> [i \in 1..Len(parsed.fields) |-> split[i].arg_name]]
        ELSE [ok |-> FALSE, names |-> <<>>]

\* chew_toys.is_int_like: int(obj) succeeds.  For a string that is an
\* optional sign followed by digits; an integer object always converts.
is_int_like(obj) ==
    \/ get_integer_ok(obj)
    \/ /\ Len(obj) >= 2
       /\ obj[1] \in {"-", "+"}
       /\ get_integer_ok(Tail(obj))

\* No arg-name counts as positional.
no_format_arg_name_is_positional(arg_names) == FALSE

some_format_arg_names_are_positional(arg_names) ==
    \E i \in 1..Len(arg_names) :
        arg_names[i] = <<>> \/ is_int_like(arg_names[i])

----------------------------------------------------------------------------
(* chew_toys.filter2 and the separation of arg-names by prefix             *)

\* filter2: the items the predicate holds for and the other items, order
\* kept; holds[i] is the value of the predicate for it[i].
filter2(holds, it) ==
    LET pick(want) ==
            LET RECURSIVE from(_)
                from(i) == IF i > Len(it) THEN <<>>
                           ELSE IF holds[i] = want THEN <<it[i]>> \o from(i + 1)
                           ELSE from(i + 1)
            IN  from(1)
    IN  [yes |-> pick(TRUE), no |-> pick(FALSE)]

startswith(arg_name, prefix) == arg_name # <<>> /\ arg_name[1] = prefix

separate_arg_names_by_prefix(arg_names, prefix) ==
    filter2([i \in 1..Len(arg_names) |-> startswith(arg_names[i], prefix)],
            arg_names)

separate_special_arg_names(arg_names) ==
    separate_arg_names_by_prefix(arg_names, SPECIAL_ARG_PREFIX)

separate_computed_arg_names(arg_names) ==
    separate_arg_names_by_prefix(arg_names, COMPUTED_ARG_PREFIX)

frozenset(seq) == {seq[i] : i \in 1..Len(seq)}

\* The names check_special_arg_names_support complains about; it raises
\* ValueError when the set is not empty.
\* Only one of the unsupported arg-names is reported.
check_one_unsupported(arg_names, supported) ==
    IF arg_names # {} /\ ~(arg_names \subseteq supported)
    THEN {CHOOSE n \in arg_names \ supported : TRUE}
    ELSE {}

check_special_arg_names_support(arg_names, supported) ==
    IF arg_names # {} /\ ~(arg_names \subseteq supported)
    THEN arg_names \ supported
    ELSE {}

----------------------------------------------------------------------------
(* Provider classes (subclasses of ExtraAttributes / ComputedArgNames)     *)

\* A user class: its name, the library class it derives from, its
\* __args__, the names of its public methods and whether these methods
\* consult self._args.
UserClass(name, kind, args, attrs, reads) ==
    PyClass([name |-> name, kind |-> kind, args |-> args, attrs |-> attrs,
             reads |-> reads])

\* A user class whose methods return constants.
ProviderClass(name, kind, args, attrs) ==
    UserClass(name, kind, args, attrs, FALSE)

RECURSIVE Reversed(_)
Reversed(seq) ==
    IF seq = <<>> THEN <<>> ELSE Reversed(Tail(seq)) \o <<Head(seq)>>

RECURSIVE Flatten(_)
Flatten(seqs) ==
    IF seqs = <<>> THEN <<>> ELSE Head(seqs) \o Flatten(Tail(seqs))

\* The classes a class looks its attributes up in, nearest first: the
\* class itself for a user class, the recorded order for a joined class.
mro(cls) == IF "mro" \in DOMAIN cls THEN cls.mro ELSE <<cls.v>>

\* The bases are searched in the order of the sequence.
join_in_order(dynamic_attributes) ==
    [t |-> "type",
     mro |-> Flatten([i \in 1..Len(dynamic_attributes) |->
                        mro(dynamic_attributes[i])])]

\* The classes the bases bring along, nearest first.
linearize(bases) == Flatten([i \in 1..Len(bases) |-> mro(bases[i])])

\* type('JoinedDynamicAttributes', tuple(reversed(dynamic_attributes)), {}):
\* the bases are searched in reverse order of the sequence.  A class that
\* comes twice, as a base or through a joined class among the bases, has
\* no consistent place in that order and type() raises TypeError.
join_dynamic_attributes(dynamic_attributes) ==
    IF \E i, j \in 1..Len(linearize(dynamic_attributes)) :
            /\ i < j
            /\ linearize(dynamic_attributes)[i] = linearize(dynamic_attributes)[j]
    THEN [t |-> "TypeError"]
    ELSE [t |-> "type", mro |-> linearize(Reversed(dynamic_attributes))]

\* cls.__args__ for every class of the mro; the joined class itself
\* inherits the __args__ of the first class of its mro.
iter_dynamic_attribute_requested_arg_names(dynamic_attributes) ==
    LET classes == mro(dynamic_attributes)
    IN  (IF classes = <<>> THEN <<>> ELSE classes[1].args)
        \o Flatten([i \in 1..Len(classes) |-> classes[i].args])

\* dir(cls) without the names that begin with an underscore.
public_attributes(cls) ==
    IF cls.t # "type" THEN {}
    ELSE UNION {mro(cls)[i].attrs : i \in 1..Len(mro(cls))}

----------------------------------------------------------------------------
(* dog.py: resolve_specification                                           *)

Raise(err, names) == [ok |-> FALSE, err |-> err, names |-> names]

resolve_specification_string(spec) ==
    [ok |-> TRUE, level |-> PyInt(INFO), format_string |-> spec,
     extras |-> <<>>, computers |-> <<>>]

IsProvider(part, kind) == part.t = "type" /\ part.v.kind = kind

\* resolve_specification_sequence without the check that a format string
\* was given.
RECURSIVE resolve_specification_sequence_unchecked(_, _)
resolve_specification_sequence_unchecked(parts, acc) ==
    IF parts = <<>> THEN acc
    ELSE
    LET part == Head(parts)
    IN  IF part.t = "int"
        THEN resolve_specification_sequence_unchecked(Tail(parts),
                [acc EXCEPT !.level = part])
        ELSE IF part.t = "str"
        THEN resolve_specification_sequence_unchecked(Tail(parts),
                [acc EXCEPT !.format_string = part])
        ELSE IF part.t = "type" /\ part.v.kind = "ExtraAttributes"
        THEN resolve_specification_sequence_unchecked(Tail(parts),
                [acc EXCEPT !.extras = Append(@, part)])
        ELSE IF part.t = "type" /\ part.v.kind = "ComputedArgNames"
        THEN resolve_specification_sequence_unchecked(Tail(parts),
                [acc EXCEPT !.computers = Append(@, part)])
        ELSE Raise("TypeError", {})

\* The parts of a sequence specification are taken in order; a later
\* level or format string replaces an earlier one.
RECURSIVE resolve_specification_sequence(_, _)
resolve_specification_sequence(parts, acc) ==
    IF parts = <<>>
    THEN IF acc.format_string = PyNone
         THEN Raise("ValueError", {})
         ELSE acc
    ELSE
    LET part == Head(parts)
    IN  IF part.t = "int"
        THEN resolve_specification_sequence(Tail(parts),
                [acc EXCEPT !.level = part])
        ELSE IF part.t = "str"
        THEN resolve_specification_sequence(Tail(parts),
                [acc EXCEPT !.format_string = part])
        ELSE IF IsProvider(part, "ExtraAttributes")
        THEN resolve_specification_sequence(Tail(parts),
                [acc EXCEPT !.extras = Append(@, part)])
        ELSE IF IsProvider(part, "ComputedArgNames")
        THEN resolve_specification_sequence(Tail(parts),
                [acc EXCEPT !.computers = Append(@, part)])
        ELSE Raise("TypeError", {})

resolve_specification_none ==
    [ok |-> TRUE, level |-> PyNone, format_string |-> PyNone,
     extras |-> <<>>, computers |-> <<>>]

resolve_specification(spec) ==
    IF spec.t = "str" THEN resolve_specification_string(spec)
    ELSE IF spec.t \in {"tuple", "list"}
    THEN resolve_specification_sequence(spec.v,
            [ok |-> TRUE, level |-> PyInt(INFO), format_string |-> PyNone,
             extras |-> <<>>, computers |-> <<>>])
    ELSE IF spec.t = "NoneType" THEN resolve_specification_none
    ELSE Raise("TypeError", {})

----------------------------------------------------------------------------
(* dog.__init__                                                            *)

\* Python truth value of a constructor argument.
Truthy(obj) ==
    IF obj.t = "NoneType" THEN FALSE
    ELSE IF obj.t \in {"tuple", "list", "str"} THEN obj.v # <<>>
    ELSE IF obj.t = "int" THEN obj.v # 0
    ELSE TRUE

\* _set_extras_for_all_phases: the joined class every phase starts with.
set_extras_for_all_phases(extras) ==
    IF extras.t \notin {"tuple", "list"} THEN Raise("TypeError", {})
    ELSE IF \E i \in 1..Len(extras.v) : extras.v[i].t # "type"
    THEN Raise("TypeError", {})
    ELSE IF join_dynamic_attributes(extras.v).t = "TypeError"
    THEN Raise("TypeError", {})
    ELSE [ok |-> TRUE, cls |-> join_dynamic_attributes(extras.v)]

\* _add_extras for one phase: the classes of the phase's specification
\* come after the class already set for all phases.
add_extras(current, more) ==
    IF more # <<>>
    THEN IF current.t = "type"
         THEN join_dynamic_attributes(<<current>> \o more)
         ELSE join_dynamic_attributes(more)
    ELSE current

\* The arg-names of the format string alone.
get_format_arg_names_only(fmt, extras, computer) ==
    LET parsed == IF fmt = PyNone THEN [ok |-> TRUE, names |-> <<>>]
                  ELSE get_format_arg_names(fmt.v)
    IN  IF ~parsed.ok THEN Raise("ValueError", {})
        ELSE IF some_format_arg_names_are_positional(parsed.names)
        THEN Raise("ValueError", {})
        ELSE [ok |-> TRUE, names |-> parsed.names]

\* _get_phases_arg_names for one phase: the arg-names of the format
\* string followed by the names the extras and the computer request.
get_phase_arg_names(fmt, extras, computer) ==
    LET parsed == IF fmt = PyNone THEN [ok |-> TRUE, names |-> <<>>]
                  ELSE get_format_arg_names(fmt.v)
        requested(cls) == IF cls.t = "type"
                          THEN iter_dynamic_attribute_requested_arg_names(cls)
                          ELSE <<>>
    IN  IF ~parsed.ok THEN Raise("ValueError", {})
        ELSE IF some_format_arg_names_are_positional(parsed.names)
        THEN Raise("ValueError", {})
        ELSE [ok |-> TRUE,
              names |-> parsed.names \o requested(extras) \o requested(computer)]

\* A separation that sorts the names of a phase without format string too.
separate_arg_names_of_any_phase(fmt, arg_names) ==
    LET byComputed == separate_computed_arg_names(arg_names)
        bySpecial == separate_special_arg_names(byComputed.no)
    IN  [computed |-> frozenset(byComputed.yes),
         special |-> frozenset(bySpecial.yes),
         regular |-> frozenset(bySpecial.no)]

\* separate_arg_names of _separate_phase_arg_names_to_categories.
separate_arg_names(fmt, arg_names) ==
    IF fmt = PyNone
    THEN [computed |-> {}, special |-> {}, regular |-> {}]
    ELSE LET byComputed == separate_computed_arg_names(arg_names)
             bySpecial == separate_special_arg_names(byComputed.no)
         IN  [computed |-> frozenset(byComputed.yes),
              special |-> frozenset(bySpecial.yes),
              regular |-> frozenset(bySpecial.no)]

\* Every phase supports what the error phase supports.
SupportedAll(phase) == ERROR_ARGS

Supported(phase) ==
    CASE phase = "enter" -> ENTER_ARGS
      [] phase = "exit" -> EXIT_ARGS
      [] phase = "error" -> ERROR_ARGS

\* The first phase, in the order enter, exit, error, for which bad holds;
\* "" when there is none.
FirstPhase(bad) ==
    IF bad["enter"] THEN "enter"
    ELSE IF bad["exit"] THEN "exit"
    ELSE IF bad["error"] THEN "error"
    ELSE ""

\* _validate_special_arg_names without its last two lines.
validate_support_only(special_arg_names, propagate) ==
    LET unsupported(p) ==
            check_special_arg_names_support(special_arg_names[p], Supported(p))
        first == FirstPhase([p \in PhaseSet |-> unsupported(p) # {}])
    IN  IF first # "" THEN Raise("ValueError", unsupported(first))
        ELSE [ok |-> TRUE]

\* _validate_special_arg_names
validate_special_arg_names(special_arg_names, propagate) ==
    LET unsupported(p) ==
            check_special_arg_names_support(special_arg_names[p], Supported(p))
        first == FirstPhase([p \in PhaseSet |-> unsupported(p) # {}])
    IN  IF first # "" THEN Raise("ValueError", unsupported(first))
        ELSE IF propagate /\ ARG_RET \in special_arg_names["error"]
        THEN Raise("ValueError", {ARG_RET})
        ELSE [ok |-> TRUE]

\* Tokens that begin with an underscore.
UnderscoreTokens == {"_", "_hidden"}

\* _validate_computed_arg_names for one phase; "" when the phase passes.
validate_computed_arg_names(arg_names, computer) ==
    IF \E n \in arg_names : Len(n) < 2 THEN "IndexError"
    ELSE IF \E n \in arg_names : n[2] \in UnderscoreTokens THEN "ValueError"
    ELSE IF \E n \in arg_names : Tail(n) \notin
                {<<attr>> : attr \in public_attributes(computer)}
    THEN "ValueError"
    ELSE ""

\* dog.__init__ after the arg-names are separated: the validation of the
\* special and of the computed arg-names, then the slots of the instance.
\* A slot named _enter_x, _exit_x, _error_x in the source is x[phase] here.
dog_init_validate(a, spec, extras, computer, cats) ==
    LET special == [p \in PhaseSet |-> cats[p].special]
        specialCheck == validate_special_arg_names(special, a.propagate_exception)
        computedCheck == [p \in PhaseSet |->
                    validate_computed_arg_names(cats[p].computed, computer[p])]
        badComputed == FirstPhase([p \in PhaseSet |-> computedCheck[p] # ""])
    IN  IF ~specialCheck.ok THEN specialCheck
        ELSE IF badComputed # "" THEN Raise(computedCheck[badComputed], {})
        ELSE [ok |-> TRUE,
              level |-> [p \in PhaseSet |-> spec[p].level],
              format |-> [p \in PhaseSet |-> spec[p].format_string],
              extras |-> extras,
              computer |-> computer,
              computed_arg_names |-> [p \in PhaseSet |-> cats[p].computed],
              special_arg_names |-> special,
              regular_arg_names |-> [p \in PhaseSet |-> cats[p].regular],
              logger |-> a.logger,
              catch |-> a.catch,
              propagate |-> a.propagate_exception,
              exc_info |-> a.exc_info,
              default_ret |-> a.default_ret,
              default_ret_arg |-> IF a.propagate_exception THEN EmptyDict
                                  ELSE ARG_RET :> a.default_ret]

\* dog.__init__ after the format strings are parsed: the separation of
\* the arg-names of each phase into categories.
dog_init_separate(a, spec, extras, computer, names) ==
    IF \E p \in PhaseSet : ~names[p].ok THEN Raise("ValueError", {})
    ELSE dog_init_validate(a, spec, extras, computer,
            [p \in PhaseSet |->
                separate_arg_names(spec[p].format_string, names[p].names)])

\* dog.__init__ after the specifications are resolved: the extras and the
\* computer of each phase, then the arg-names each phase requires.
dog_init_parse(a, spec, extras, computer) ==
    dog_init_separate(a, spec, extras, computer,
        [p \in PhaseSet |->
            get_phase_arg_names(spec[p].format_string, extras[p], computer[p])])

\* dog.__init__ after the classes of each phase are joined.
dog_init_joined(a, spec, extras, computer) ==
    IF \E p \in PhaseSet : "TypeError" \in {extras[p].t, computer[p].t}
    THEN Raise("TypeError", {})
    ELSE dog_init_parse(a, spec, extras, computer)

dog_init_resolved(a, all, spec) ==
    IF \E p \in PhaseSet : ~spec[p].ok
    THEN spec[FirstPhase([p \in PhaseSet |-> ~spec[p].ok])]
    ELSE dog_init_joined(a, spec,
            [p \in PhaseSet |-> add_extras(all, spec[p].extras)],
            [p \in PhaseSet |->
                IF spec[p].computers # <<>>
                THEN join_dynamic_attributes(spec[p].computers)
                ELSE PyNone])

\* dog.__init__: the slots of the new instance, or the exception raised.
dog_init(a) ==
    LET all == IF Truthy(a.extras) THEN set_extras_for_all_phases(a.extras)
               ELSE [ok |-> TRUE, cls |-> PyNone]
    IN  IF ~all.ok THEN all
        ELSE dog_init_resolved(a, all.cls,
                [p \in PhaseSet |-> resolve_specification(a[p])])

----------------------------------------------------------------------------
(* dog.__call__: decoration                                                *)

\* An unwrap that takes the callable as it is handed to the decorator.
unwrap_nothing(callables, i) == i

\* chew_toys.unwrap: follow __wrapped__ down to the original function.
\* callables is the chain of callables, i the index of func in it.
RECURSIVE unwrap(_, _)
unwrap(callables, i) ==
    IF callables[i].t = "wrapper" THEN unwrap(callables, callables[i].wrapped)
    ELSE i

\* _check_function_args stopping at the first phase that has an
\* unrecognized arg-name.
check_first_phase_only(self, func) ==
    LET func_args == frozenset(func.args)
                     \cup {x.v : x \in {y \in {func.varargs, func.keywords} :
                                            y.t = "str"}}
        unrecognized(p) == self.regular_arg_names[p] \ func_args
    IN  IF unrecognized("enter") # {} THEN unrecognized("enter")
        ELSE IF unrecognized("exit") # {} THEN unrecognized("exit")
        ELSE unrecognized("error")

\* _check_function_args knowing the named parameters only.
check_named_only(self, func) ==
    UNION {self.regular_arg_names[p] \ frozenset(func.args) : p \in PhaseSet}

\* _check_function_args: the arg-names no parameter of func answers to.
\* getargspec gives the named parameters and the names of the *args and
\* **kwargs parameters (None when absent, which equals no arg-name).
check_function_args(self, func) ==
    LET func_args == frozenset(func.args)
                     \cup {x.v : x \in {y \in {func.varargs, func.keywords} :
                                            y.t = "str"}}
        unrecognized(p) ==
            IF /\ self.regular_arg_names[p] # {}
               /\ ~(self.regular_arg_names[p] \subseteq func_args)
            THEN self.regular_arg_names[p] \ func_args
            ELSE {}
    IN  UNION {unrecognized(p) : p \in PhaseSet}

\* _get_logger: the logger of the dog, or the logger of the module the
\* function was defined in.
get_logger(self, wrapped_func) ==
    IF self.logger = "" THEN wrapped_func.module ELSE self.logger

\* dog.__call__(func), func being callables[i]: the wrapper, or TypeError.
dog_call(self, callables, i) ==
    LET wrapped_func == unwrap(callables, i)
        unrecognized == check_function_args(self, callables[wrapped_func])
    IN  IF unrecognized # {} THEN Raise("TypeError", unrecognized)
        ELSE [ok |-> TRUE,
              wrapper |-> [t |-> "wrapper",
                           name |-> callables[i].name,
                           module |-> callables[i].module,
                           pathname |-> "dog.py", line |-> 627,
                           args |-> <<>>,
                           varargs |-> PyStr(<<"args">>),
                           keywords |-> PyStr(<<"kwargs">>),
                           closure |-> self,
                           wrapped |-> i,
                           wrapped_func |-> wrapped_func,
                           logger |-> get_logger(self, callables[wrapped_func])]]

----------------------------------------------------------------------------
(* Exceptions                                                              *)

\* The classes an exception class derives from, itself included.
ExcBases(cls) ==
    CASE cls = "ZeroDivisionError" ->
            {"ZeroDivisionError", "ArithmeticError", "StandardError",
             "Exception", "BaseException"}
      [] cls = "KeyError" ->
            {"KeyError", "LookupError", "StandardError", "Exception",
             "BaseException"}
      [] cls = "KeyboardInterrupt" -> {"KeyboardInterrupt", "BaseException"}
      [] cls = "TypeError" ->
            {"TypeError", "StandardError", "Exception", "BaseException"}
      [] OTHER -> {cls}

\* An except clause that takes every exception.
MatchesAll(exc, catch) == TRUE

\* An except clause for class catch takes the exception.
Matches(exc, catch) == catch \in ExcBases(exc.cls)

NoExc == [cls |-> "", id |-> 0]

\* An entry of a traceback: the file and the name of the code of the
\* frame, and the line the frame was at.
Entry(filename, lineno, name) ==
    [filename |-> filename, lineno |-> lineno, name |-> name]

\* The frame of wrapper at a line of dog.py: at the call of func, at the
\* raise statement, or at the call of log of a phase.
InWrapper(lineno) == Entry("dog.py", lineno, "wrapper")
AtCall == InWrapper(674)
AtRaise == InWrapper(741)
AtLog(phase) ==
    InWrapper(CASE phase = "enter" -> 649
                [] phase = "error" -> 704
                [] phase = "exit" -> 751)

\* The frame of a function that raises in its body, a line below def.
InBody(func) == Entry(func.pathname, func.line + 1, func.name)

\* bone.next_traceback: the traceback without its first frame.
next_traceback(tb) == Tail(tb)

\* The entries of the traceback, the innermost frame first.
get_simplified_traceback_reversed(tb) ==
    [i \in 1..Len(tb) |->
        <<tb[Len(tb) + 1 - i].filename, tb[Len(tb) + 1 - i].lineno,
          tb[Len(tb) + 1 - i].name>>]

\* bone.get_simplified_traceback: (co_filename, tb_lineno, co_name) of
\* every frame of the traceback, in its order.
get_simplified_traceback(tb) ==
    [i \in 1..Len(tb) |-> <<tb[i].filename, tb[i].lineno, tb[i].name>>]

----------------------------------------------------------------------------
(* The wrapper closure: building the arg-names of a log message            *)

\* time() was not called: the variable still holds None.
NoTime == 0

\* No builder is handed over: the dictionary is empty.
basic_builder_empty(fr, w, callables, callargs, phase) ==
    [ok |-> TRUE, args |-> EmptyDict]

\* The dictionary that basic_builder of dog._log assembles from the
\* builders the wrapper hands over for the phase; ok is FALSE when a
\* builder raises.  fr is the frame of the wrapper, w the wrapper.
basic_builder(fr, w, callables, callargs, phase) ==
    LET self == w.closure
        needs(name) == name \in self.special_arg_names[phase]
        wrapped_func == callables[w.wrapped_func]
        build_pathname_arg == ARG_PATHNAME :> wrapped_func.pathname
        build_line_arg == ARG_LINE :> wrapped_func.line
        build_func_arguments_args == callargs
        build_logger_arg == ARG_LOGGER :> fr.logger
        build_function_arg == ARG_FUNC :> wrapped_func.name
        build_time_arg == ARG_TIME :> (fr.end_time - fr.start_time)
        build_return_arg == ARG_RET :> fr.ret
        build_error_arg == ARG_ERR :> fr.exc
        build_traceback_arg ==
            ARG_TRACEBACK :> get_simplified_traceback(next_traceback(fr.tb))
        build_default_return_arg == self.default_ret_arg
        use(cond, built) == IF cond THEN built ELSE EmptyDict
        common ==
            update(update(update(update(
                use(needs(ARG_PATHNAME), build_pathname_arg),
                use(needs(ARG_LINE), build_line_arg)),
                use(self.regular_arg_names[phase] # {}, build_func_arguments_args)),
                use(needs(ARG_LOGGER), build_logger_arg)),
                use(needs(ARG_FUNC), build_function_arg))
        timed == update(common, use(needs(ARG_TIME), build_time_arg))
        timeFails == /\ phase # "enter"
                     /\ needs(ARG_TIME)
                     /\ (fr.start_time = NoTime \/ fr.end_time = NoTime)
    IN  IF timeFails THEN [ok |-> FALSE, args |-> EmptyDict]
        ELSE IF phase = "enter" THEN [ok |-> TRUE, args |-> common]
        ELSE IF phase = "exit"
        THEN [ok |-> TRUE,
              args |-> update(timed, use(needs(ARG_RET), build_return_arg))]
        ELSE [ok |-> TRUE,
              args |-> update(update(update(timed,
                        use(needs(ARG_ERR), build_error_arg)),
                        use(needs(ARG_TRACEBACK), build_traceback_arg)),
                        use(needs(ARG_RET), build_default_return_arg))]

\* getattr(instance, attr)() of an instance of a joined provider class:
\* the method of the first class of the mro that defines attr answers.
RECURSIVE provider_value(_, _)
provider_value(classes, attr) ==
    IF classes = <<>> THEN ""
    ELSE IF attr \in Head(classes).attrs THEN Head(classes).name
    ELSE provider_value(Tail(classes), attr)

\* That method consults self._args.
RECURSIVE provider_reads(_, _)
provider_reads(classes, attr) ==
    IF classes = <<>> THEN FALSE
    ELSE IF attr \in Head(classes).attrs THEN Head(classes).reads
    ELSE provider_reads(Tail(classes), attr)

\* Message.__str__: message.format(**builder()), as the values substituted
\* for the replacement fields, in order.
Message(message, built) ==
    LET names == get_format_arg_names(message.v).names
    IN  IF ~built.ok \/ \E i \in 1..Len(names) : names[i] \notin DOMAIN built.args
        THEN [ok |-> FALSE, text |-> <<>>]
        ELSE [ok |-> TRUE, text |-> [i \in 1..Len(names) |-> built.args[names[i]]]]

\* chew_toys.run_once without its cache: every call runs the function.
run_each_time(done, calls) == calls

\* chew_toys.run_once: how many times the function runs when its wrapper
\* is called calls times, done telling that it ran before.
run_once(done, calls) == IF done THEN 0 ELSE IF calls > 0 THEN 1 ELSE 0

\* The logger hands on every event, whatever its level.
isEnabledForAll(sink, level) == TRUE

\* logger.log(level, ...) makes a record when the logger is enabled for
\* the level, and hands it to its handlers.
isEnabledFor(sink, level) == level >= sink.level

\* The handlers that take a record of this level: each formats it, which
\* converts the message object to text once.
conversions(sink, level) ==
    Cardinality({h \in 1..Len(sink.handlers) : level >= sink.handlers[h]})

\* The sink reads no attribute of the extra object.
extra_attributes_unread(extras, enabled) == {}

\* The attributes the sink reads from the instance of extras when it
\* makes the record: iterating the instance gives every public attribute,
\* indexing it calls the method.
extra_attributes(extras, enabled) ==
    IF extras.t = "type" /\ enabled THEN public_attributes(extras) ELSE {}

\* basic_builder is called when the event is logged, asked for or not.
basic_builder_calls_eager(extra_reads, computer_reads, converted) ==
    1 + converted + (IF extra_reads THEN 1 ELSE 0)
      + (IF computer_reads /\ converted > 0 THEN 1 ELSE 0)

\* The calls of basic_builder during one event: one by every conversion
\* of the message, one by the instance of extras and one by the instance
\* of the computer when a method of theirs consults self._args (the
\* property keeps what the first call gave).
basic_builder_calls(extra_reads, computer_reads, converted) ==
    converted + (IF extra_reads THEN 1 ELSE 0)
      + (IF computer_reads /\ converted > 0 THEN 1 ELSE 0)

\* The computed arg-names builder works out at one conversion: only the
\* first of them.
first_to_compute(arg_names_to_compute) ==
    IF arg_names_to_compute = {} THEN {}
    ELSE {CHOOSE n \in arg_names_to_compute : TRUE}

\* The computed arg-names builder works out at every conversion.
to_compute(arg_names_to_compute) == arg_names_to_compute

\* dog._log once it is known what the sink reads: what the event cost and
\* the record.  asked is the number of calls of basic_builder.
log_built(layer, fr, self, phase, basic, enabled, converted, extra_attrs, computed_names, asked) ==
    LET ran == run_once(FALSE, asked)
        bound == run_once(fr.bound > 0,
                          IF self.regular_arg_names[phase] # {} THEN ran ELSE 0)
        computed == [arg_name \in computed_names |->
                        provider_value(mro(self.computer[phase]), arg_name[2])]
        built == IF basic.ok
                 THEN [ok |-> TRUE, args |-> update(computed, basic.args)]
                 ELSE basic
        text == IF converted > 0 THEN Message(self.format[phase], built)
                ELSE [ok |-> FALSE, text |-> <<>>]
    IN  [kind |-> IF enabled THEN "log" ELSE "dropped",
         layer |-> layer, phase |-> phase,
         level |-> self.level[phase].v, logger |-> fr.logger,
         rendered |-> text.ok,
         args |-> IF ran > 0 THEN built.args ELSE EmptyDict,
         context |-> IF ran > 0 THEN basic.args ELSE EmptyDict,
         message |-> text.text,
         extra |-> [attr \in extra_attrs |->
                        provider_value(mro(self.extras[phase]), attr)],
         converted |-> converted,
         extra_calls |-> [attr \in extra_attrs |-> 1],
         computed_calls |-> [arg_name \in computed_names |-> converted],
         built |-> ran, bound |-> bound, binds |-> fr.bound + bound]

\* dog._log once the sink is known to make a record or not and to convert
\* the message converted times: the methods that are called.
log_read(layer, fr, self, phase, basic, enabled, converted) ==
    LET extra_attrs == extra_attributes(self.extras[phase], enabled)
        computed_names == IF self.computer[phase].t = "type" /\ converted > 0
                          THEN to_compute(self.computed_arg_names[phase])
                          ELSE {}
    IN  log_built(layer, fr, self, phase, basic, enabled, converted,
                  extra_attrs, computed_names,
                  basic_builder_calls(
                      \E attr \in extra_attrs :
                          provider_reads(mro(self.extras[phase]), attr),
                      \E arg_name \in computed_names :
                          provider_reads(mro(self.computer[phase]), arg_name[2]),
                      converted))

\* A dog._log that reads wrapper.logger again for every event.
log_current_logger(layer, fr, w, callables, callargs, phase, sink) ==
    LET level == w.closure.level[phase].v
        enabled == isEnabledFor(sink, level)
        now == [fr EXCEPT !.logger = w.logger]
    IN  log_read(layer, now, w.closure, phase,
                 basic_builder(now, w, callables, callargs, phase),
                 enabled,
                 IF enabled THEN conversions(sink, level) ELSE 0)

\* dog._log: logger.log(level, Message(message, builder), extra=extra),
\* as the call the sink received and what it made of it.  The sink
\* formats the message when a handler takes the record, and keeps the
\* record when formatting fails.
log(layer, fr, w, callables, callargs, phase, sink) ==
    LET level == w.closure.level[phase].v
        enabled == isEnabledFor(sink, level)
    IN  log_read(layer, fr, w.closure, phase,
                 basic_builder(fr, w, callables, callargs, phase),
                 enabled,
                 IF enabled THEN conversions(sink, level) ELSE 0)

----------------------------------------------------------------------------
(* The wrapper closure: one invocation                                     *)

\* The call goes to the original function, whatever wraps it.
FrameOfOriginal(callables, i) ==
    [callee |-> 1, pc |-> "body",
     logger |-> "", ret |-> "", exc |-> NoExc, tb |-> <<>>,
     start_time |-> 0, end_time |-> 0, bound |-> 0]

Frame(callables, i) ==
    [callee |-> i,
     pc |-> IF callables[i].t = "wrapper" THEN "enter" ELSE "body",
     logger |-> "", ret |-> "", exc |-> NoExc, tb |-> <<>>,
     start_time |-> NoTime, end_time |-> NoTime, bound |-> 0]

\* The frame after the events logged: build_func_arguments_args keeps
\* what it returned.
Logged(fr, logged) ==
    IF logged = <<>> THEN fr
    ELSE [fr EXCEPT !.bound = logged[Len(logged)].binds]

Top == stack[Len(stack)]
Below == SubSeq(stack, 1, Len(stack) - 1)

\* The frame on top of the stack finishes with result: its caller resumes
\* after the call of func, or the caller of the outermost callable gets
\* the result.  A traceback gains the frame the exception passes through.
Deliver(result) ==
    IF Len(stack) = 1
    THEN /\ stack' = <<>>
         /\ outcome' = result
    ELSE LET caller == stack[Len(stack) - 1]
             resumed ==
                IF result.kind = "return"
                THEN [caller EXCEPT !.pc = "returned", !.ret = result.value]
                ELSE [caller EXCEPT !.pc = "raised", !.exc = result.exc,
                                    !.tb = <<AtCall>> \o result.tb]
         IN  /\ stack' = SubSeq(stack, 1, Len(stack) - 2) \o <<resumed>>
             /\ UNCHANGED outcome

\* Return with the value lost.
ReturnNothing(value) == [kind |-> "return", value |-> "", exc |-> NoExc, tb |-> <<>>]

Return(value) == [kind |-> "return", value |-> value, exc |-> NoExc, tb |-> <<>>]
\* Raise with another exception object of the same class.
RaiseCopy(exc, tb) ==
    [kind |-> "raise", value |-> "", exc |-> [exc EXCEPT !.id = @ + 1], tb |-> tb]

RaiseExc(exc, tb) == [kind |-> "raise", value |-> "", exc |-> exc, tb |-> tb]

\* needs_time_arg, exit_needs_time_arg, error_needs_time_arg of dog.__call__
exit_needs_time_arg(self) == ARG_TIME \in self.special_arg_names["exit"]
error_needs_time_arg(self) == ARG_TIME \in self.special_arg_names["error"]
needs_time_arg(self) == exit_needs_time_arg(self) \/ error_needs_time_arg(self)

\* No phase logs.
NeedNoLog(self, phase) == FALSE

need_log(self, phase) == self.format[phase] # PyNone

\* extras(basic_builder) of dog._log: DynamicAttributesBase.__init__ takes
\* the builder; a class that has no class of the library among its bases
\* has the constructor of object, which takes no argument.
instantiable(cls) ==
    cls.t # "type" \/ \E n \in 1..Len(mro(cls)) : mro(cls)[n].kind # "object"

\* A dog._log that would log whatever the provider classes are.
log_never_raises(self, phase) == FALSE

\* dog._log raises before it reaches logger.log.
log_raises(self, phase) ==
    need_log(self, phase) /\ ~instantiable(self.extras[phase])

\* A wrapper that drops the failure of logging and lets the exception of
\* the function continue.
LogRaiseOriginal(phase) ==
    [kind |-> "raise", value |-> "", exc |-> plan.behaviour.exc,
     tb |-> <<AtLog(phase)>>]

\* The TypeError of such a call, as it leaves the wrapper.
LogRaise(phase) ==
    [kind |-> "raise", value |-> "", exc |-> [cls |-> "TypeError", id |-> 0],
     tb |-> <<AtLog(phase), Entry("dog.py", 846, "_log")>>]

\* dog.__init__(**plan.dogArgs[k]) for the next k.
Construct ==
    /\ Len(init) < Len(plan.dogArgs)
    /\ \A k \in 1..Len(init) : init[k].ok
    /\ LET self == dog_init(plan.dogArgs[Len(init) + 1])
       IN  /\ init' = Append(init, self)
           /\ dogs' = IF self.ok THEN Append(dogs, self) ELSE dogs
    /\ UNCHANGED <<plan, cache, threads, chain, deco, stack, records, clock, outcome>>

\* func = dogs[plan.layers[k]](func) for the next k.
Decorate ==
    /\ Len(init) = Len(plan.dogArgs)
    /\ \A k \in 1..Len(init) : init[k].ok
    /\ Len(deco) < Len(plan.layers)
    /\ \A k \in 1..Len(deco) : deco[k].ok
    /\ LET self == dogs[plan.layers[Len(deco) + 1]]
           res == dog_call(self, chain, Len(chain))
       IN  /\ deco' = Append(deco, res)
           /\ chain' = IF res.ok THEN Append(chain, res.wrapper) ELSE chain
    /\ UNCHANGED <<plan, cache, threads, dogs, init, stack, records, clock, outcome>>

\* The decorated function is called with the arguments of the plan.
Call ==
    /\ Len(deco) = Len(plan.layers)
    /\ \A k \in 1..Len(deco) : deco[k].ok
    /\ stack = <<>>
    /\ outcome.kind = "none"
    /\ stack' = <<Frame(chain, Len(chain))>>
    /\ UNCHANGED <<plan, cache, threads, dogs, init, chain, deco, records, clock, outcome>>

\* wrapper, up to and including the call of func: the logger is read, the
\* enter message is logged and the start time is taken.
WrapperEnter ==
    /\ stack # <<>>
    /\ Top.pc = "enter"
    /\ LET w == chain[Top.callee]
           self == w.closure
           timed == needs_time_arg(self)
           fr == [Top EXCEPT !.logger = w.logger,
                             !.pc = "calling",
                             !.start_time = IF timed THEN clock + 1 ELSE NoTime]
           log_enter == IF need_log(self, "enter")
                        THEN <<log(Top.callee, fr, w, chain, plan.callargs,
                                   "enter", plan.sink)>>
                        ELSE <<>>
       IN  IF log_raises(self, "enter")
           THEN /\ Deliver(LogRaise("enter"))
                /\ UNCHANGED <<records, clock>>
           ELSE /\ records' = records \o log_enter
                /\ clock' = IF timed THEN clock + 1 ELSE clock
                /\ stack' = Below \o <<Logged(fr, log_enter),
                                       Frame(chain, w.wrapped)>>
                /\ UNCHANGED outcome
    /\ UNCHANGED <<plan, cache, threads, dogs, init, chain, deco>>

\* The body of the original function runs: it returns a value or raises.
Body ==
    /\ stack # <<>>
    /\ Top.pc = "body"
    /\ records' = Append(records,
            [kind |-> "body", layer |-> Top.callee, phase |-> "", level |-> 0,
             logger |-> "", rendered |-> TRUE, args |-> plan.callargs,
             context |-> EmptyDict,
             message |-> <<>>, extra |-> EmptyDict, converted |-> 1,
             extra_calls |-> EmptyDict, computed_calls |-> EmptyDict,
             built |-> 0, bound |-> 0, binds |-> 0])
    /\ IF plan.behaviour.kind = "return"
       THEN Deliver(Return(plan.behaviour.value))
       ELSE Deliver(RaiseExc(plan.behaviour.exc, <<InBody(chain[Top.callee])>>))
    /\ UNCHANGED <<plan, cache, threads, dogs, init, chain, deco, clock>>

\* An end of wrapper that returns ret without logging the exit message.
ReturnWithoutExit(fr, log_first, ticks) ==
    /\ records' = records \o log_first
    /\ clock' = clock + ticks
    /\ Deliver(Return(fr.ret))

\* The end of wrapper for the frame fr whose ret is set: the exit message
\* is logged and ret is returned.
LogExitAndReturn(fr, log_first, ticks) ==
    LET w == chain[fr.callee]
        self == w.closure
    IN  /\ records' = IF need_log(self, "exit") /\ ~log_raises(self, "exit")
                      THEN Append(records \o log_first,
                                log(fr.callee, Logged(fr, log_first), w, chain,
                                    plan.callargs, "exit", plan.sink))
                      ELSE records \o log_first
        /\ clock' = clock + ticks
        /\ IF log_raises(self, "exit") THEN Deliver(LogRaise("exit"))
           ELSE Deliver(Return(fr.ret))

\* wrapper after func returned: the end time is taken when the exit
\* phase needs it, then the exit message is logged and ret returned.
WrapperReturn ==
    /\ stack # <<>>
    /\ Top.pc = "returned"
    /\ LET self == chain[Top.callee].closure
           timed == exit_needs_time_arg(self)
           fr == [Top EXCEPT !.end_time = IF timed THEN clock + 1 ELSE NoTime]
       IN  LogExitAndReturn(fr, <<>>, IF timed THEN 1 ELSE 0)
    /\ UNCHANGED <<plan, cache, threads, dogs, init, chain, deco>>

\* wrapper after func raised.  An exception the except clause does not
\* take leaves the wrapper as it is.  Otherwise the end time is taken when
\* the error phase needs it, the error message is logged, and the
\* exception is raised again with the traceback that follows this frame
\* (the raise statement adds the frame once more), or default_ret becomes
\* ret and the wrapper ends as after a return.
WrapperExcept ==
    /\ stack # <<>>
    /\ Top.pc = "raised"
    /\ LET w == chain[Top.callee]
           self == w.closure
           timed == error_needs_time_arg(self)
           fr == [Top EXCEPT !.end_time = IF timed THEN clock + 1 ELSE NoTime]
           log_error == IF need_log(self, "error")
                        THEN <<log(Top.callee, fr, w, chain, plan.callargs,
                                   "error", plan.sink)>>
                        ELSE <<>>
       IN  IF ~Matches(Top.exc, self.catch)
           THEN /\ Deliver(RaiseExc(Top.exc, Top.tb))
                /\ UNCHANGED <<records, clock>>
           ELSE IF log_raises(self, "error")
           THEN /\ records' = records
                /\ clock' = IF timed THEN clock + 1 ELSE clock
                /\ Deliver(LogRaise("error"))
           ELSE IF self.propagate
           THEN /\ records' = records \o log_error
                /\ clock' = IF timed THEN clock + 1 ELSE clock
                /\ Deliver(RaiseExc(fr.exc, <<AtRaise>> \o next_traceback(fr.tb)))
           ELSE LogExitAndReturn([fr EXCEPT !.ret = self.default_ret],
                                 log_error, IF timed THEN 1 ELSE 0)
    /\ UNCHANGED <<plan, cache, threads, dogs, init, chain, deco>>

----------------------------------------------------------------------------
(* The inputs of a run                                                     *)

MaxLayers == 2      \* times the function is decorated
MaxPieces == 2      \* pieces a format string under test is made of

Name(token) == <<token>>
Field(arg_name) == <<"{">> \o arg_name \o <<"}">>

\* The constructor arguments that are the same in every run.
DogArgs(enter, exit, error, propagate, catch) ==
    [enter |-> enter, exit |-> exit, error |-> error,
     extras |-> PyTuple(<<>>), logger |-> "", catch |-> catch,
     propagate_exception |-> propagate, exc_info |-> FALSE,
     default_ret |-> "d123"]

Function(args, varargs, keywords) ==
    [t |-> "function", name |-> "foo", module |-> "tests",
     pathname |-> "tests.py", line |-> 7,
     args |-> args, varargs |-> varargs, keywords |-> keywords]

\* def foo(bar, baz)
FooBarBaz == Function(<<Name("bar"), Name("baz")>>, PyNone, PyNone)
\* def foo(*bar, **baz)
FooStarBarBaz == Function(<<>>, PyStr(Name("bar")), PyStr(Name("baz")))
\* def foo(bar, *baz)
FooBarStarBaz == Function(<<Name("bar")>>, PyStr(Name("baz")), PyNone)
\* def foo()
FooNoArgs == Function(<<>>, PyNone, PyNone)

Parameters(func) ==
    frozenset(func.args)
    \cup (IF func.varargs.t = "str" THEN {func.varargs.v} ELSE {})
    \cup (IF func.keywords.t = "str" THEN {func.keywords.v} ELSE {})

\* getcallargs(func, 'cake', 'lie'): every parameter with its value.
CallArgs(func) ==
    [n \in Parameters(func) |-> IF n = Name("bar") THEN "cake" ELSE "lie"]

Behaviours ==
    {[kind |-> "return", value |-> "r1", exc |-> NoExc],
     [kind |-> "raise", value |-> "", exc |-> [cls |-> "ZeroDivisionError", id |-> 1]]}

\* The sink of the tests: the root logger and its one handler take every
\* level from DEBUG up.
TestSink == [level |-> DEBUG, handlers |-> <<DEBUG>>]

\* A run: the family of runs it belongs to, the arguments of each dog, the
\* dog of each decoration (innermost first), the function, the arguments
\* of the call as getcallargs maps them, what the body does, and the sink.
Plan(family, dogArgs, layers, func, behaviour) ==
    [family |-> family, dogArgs |-> dogArgs, layers |-> layers, func |-> func,
     callargs |-> CallArgs(func), behaviour |-> behaviour, sink |-> TestSink]

\* The sequences of at most n elements of S.
RECURSIVE SeqsUpTo(_, _)
SeqsUpTo(S, n) ==
    IF n = 0 THEN {<<>>}
    ELSE LET shorter == SeqsUpTo(S, n - 1)
         IN  shorter \cup {Append(q, x) : q \in shorter, x \in S}

\* Ways to decorate with n dogs at most MaxLayers times, every dog used.
Layerings(n) ==
    {l \in SeqsUpTo(1..n, MaxLayers) :
        \A d \in 1..n : \E i \in 1..Len(l) : l[i] = d}

\* Runs of the logging protocol: every combination of active phases,
\* propagation and catch filter, for one dog or two, applied once or more.
ProtocolArgs ==
    {DogArgs(enter, exit, error, propagate, catch) :
        enter \in {PyNone, PyStr(Field(Name("bar")) \o Field(Name("baz")))},
        exit \in {PyNone, PyStr(Field(Name("bar")) \o Field(Name("baz"))
                                \o Field(ARG_RET))},
        error \in {PyNone, PyStr(Field(Name("bar")) \o Field(ARG_ERR))},
        propagate \in BOOLEAN,
        catch \in {"Exception", "KeyError"}}

ProtocolPlan(p) ==
    \/ \E a \in ProtocolArgs, layers \in Layerings(1), behaviour \in Behaviours :
            p = Plan("protocol", <<a>>, layers, FooBarBaz, behaviour)
    \/ \E a \in ProtocolArgs, b \in ProtocolArgs, layers \in Layerings(2),
          behaviour \in Behaviours :
            p = Plan("protocol", <<a, b>>, layers, FooBarBaz, behaviour)

\* Runs about special arg-names: each phase requires no special arg-name
\* or one, through its format string, through the __args__ of an
\* ExtraAttributes subclass or through those of a ComputedArgNames
\* subclass; "@bogus" is no special arg-name of the library.
SpecialNames == ERROR_ARGS \cup {<<SPECIAL_ARG_PREFIX, "bogus">>}

Requiring(form, arg_name) ==
    CASE form = "format" -> PyStr(Field(arg_name))
      [] form = "extras" ->
            PyTuple(<<PyStr(<<"msg">>),
                      ProviderClass("E1", "ExtraAttributes", <<arg_name>>, {"value"})>>)
      [] form = "computer" ->
            PyTuple(<<PyStr(<<"msg">>),
                      ProviderClass("C1", "ComputedArgNames", <<arg_name>>, {"value"})>>)

SpecialPlan(p) ==
    \E form \in {"format", "extras", "computer"}, propagate \in BOOLEAN,
       behaviour \in Behaviours :
        \E enter \in {PyNone} \cup {Requiring(form, n) : n \in SpecialNames},
           exit \in {PyNone} \cup {Requiring(form, n) : n \in SpecialNames},
           error \in {PyNone} \cup {Requiring(form, n) : n \in SpecialNames} :
            p = Plan("special",
                     <<DogArgs(enter, exit, error, propagate, "Exception")>>,
                     <<1>>, FooBarBaz, behaviour)

\* Runs about the parameters of the decorated function: each phase
\* requires some regular arg-names, the function has them or not.
RegularSpecs ==
    {PyNone,
     PyStr(Field(Name("bar")) \o Field(Name("baz"))),
     PyStr(Field(Name("bear"))),
     PyStr(Field(Name("bar")) \o Field(Name("buzz"))),
     PyTuple(<<PyStr(<<"msg">>),
               ProviderClass("E1", "ExtraAttributes",
                             <<Name("baz"), Name("bear")>>, {"value"})>>)}

Functions == {FooBarBaz, FooStarBarBaz, FooBarStarBaz, FooNoArgs}

RegularPlan(p) ==
    \E enter \in RegularSpecs, exit \in RegularSpecs, error \in RegularSpecs,
       func \in Functions, behaviour \in Behaviours :
        p = Plan("regular",
                 <<DogArgs(enter, exit, error, TRUE, "Exception")>>,
                 <<1>>, func, behaviour)

\* Runs about format strings: one phase gets a format string made of at
\* most MaxPieces of these pieces.
Pieces ==
    {<<"msg">>, <<"{", "{">>, <<"}", "}">>, <<"{">>, <<"}">>,
     <<"{", "bar", "}">>,
     <<"{", "bar", ".", "baz", "}">>,
     <<"{", "bar", "[", "0", "]", "}">>,
     <<"{", "bar", "!", "r", "}">>,
     <<"{", "bar", ":", "msg", "}">>,
     <<"{", "}">>,
     <<"{", "0", "}">>,
     <<"{", "-", "1", "}">>,
     <<"{", "!", "r", "}">>,
     <<"{", "bar", ".", "}">>,
     <<"{", "bar", "[", "]", "}">>,
     <<"{", "bar", "[", "0", "}">>,
     <<"{", "bar", "[", "0", "]", "baz", "}">>,
     <<"{", "bar", "!", "}">>,
     <<"{", "bar", "!", "x", "}">>,
     <<"{", "bar", "!", "r", "r", "}">>,
     <<"{", "bar">>}

FormatStrings == {Flatten(q) : q \in SeqsUpTo(Pieces, MaxPieces)}

FormatPlan(p) ==
    \E phase \in PhaseSet, format_string \in FormatStrings :
        LET spec(ph) == IF ph = phase THEN PyStr(format_string) ELSE PyNone
        IN  p = Plan("format",
                     <<DogArgs(spec("enter"), spec("exit"), spec("error"),
                               TRUE, "Exception")>>,
                     <<1>>, FooBarBaz, CHOOSE b \in Behaviours : b.kind = "return")

\* Runs about @traceback: one dog or two whose error phase logs
\* '{@traceback}', each catching Exception or KeyError, propagating or not.
TracebackArgs ==
    {DogArgs(PyNone, PyNone, PyStr(Field(ARG_TRACEBACK)), propagate, catch) :
        propagate \in BOOLEAN, catch \in {"Exception", "KeyError"}}

TracebackPlan(p) ==
    \/ \E a \in TracebackArgs, layers \in Layerings(1), behaviour \in Behaviours :
            p = Plan("traceback", <<a>>, layers, FooBarBaz, behaviour)
    \/ \E a \in TracebackArgs, b \in TracebackArgs, layers \in Layerings(2),
          behaviour \in Behaviours :
            p = Plan("traceback", <<a, b>>, layers, FooBarBaz, behaviour)

\* Runs about unsupported special arg-names: each phase logs nothing,
\* '{@func}', '{@ret}{@err}' or '{@bogus}{@traceback}{@func}'.
UnsupportedSpecs ==
    {PyNone,
     PyStr(Field(ARG_FUNC)),
     PyStr(Field(ARG_RET) \o Field(ARG_ERR)),
     PyStr(Field(<<SPECIAL_ARG_PREFIX, "bogus">>) \o Field(ARG_TRACEBACK)
           \o Field(ARG_FUNC))}

UnsupportedPlan(p) ==
    \E enter \in UnsupportedSpecs, exit \in UnsupportedSpecs,
       error \in UnsupportedSpecs, propagate \in BOOLEAN :
        p = Plan("unsupported",
                 <<DogArgs(enter, exit, error, propagate, "Exception")>>,
                 <<1>>, FooBarBaz, CHOOSE b \in Behaviours : b.kind = "raise")

\* Runs of a function wrapped by two dogs that differ in default_ret: the
\* inner dog returns "inner" for an exception it stops, the outer "outer".
DoubleArgs(default_ret) ==
    {[DogArgs(enter, exit, error, propagate, catch)
            EXCEPT !.default_ret = default_ret] :
        enter \in {PyNone, PyStr(Field(Name("bar")) \o Field(ARG_FUNC))},
        exit \in {PyNone, PyStr(Field(ARG_RET))},
        error \in {PyNone, PyStr(Field(ARG_ERR))},
        propagate \in BOOLEAN,
        catch \in {"Exception", "KeyError"}}

DoublePlan(p) ==
    \E a \in DoubleArgs("inner"), b \in DoubleArgs("outer"),
       behaviour \in Behaviours :
        p = Plan("double", <<a, b>>, <<1, 2>>, FooBarBaz, behaviour)

\* Nothing is constructed, decorated or called yet.
Start ==
    /\ dogs = <<>>
    /\ init = <<>>
    /\ chain = <<plan.func>>
    /\ deco = <<>>
    /\ stack = <<>>
    /\ records = <<>>
    /\ clock = 0
    /\ outcome = [kind |-> "none", value |-> "", exc |-> NoExc, tb |-> <<>>]
    /\ cache = EmptyDict
    /\ threads = <<>>

Init ==
    /\ \/ ProtocolPlan(plan)
       \/ SpecialPlan(plan)
       \/ RegularPlan(plan)
       \/ FormatPlan(plan)
       \/ TracebackPlan(plan)
       \/ UnsupportedPlan(plan)
       \/ DoublePlan(plan)
    /\ Start

Next ==
    \/ Construct
    \/ Decorate
    \/ Call
    \/ WrapperEnter
    \/ Body
    \/ WrapperReturn
    \/ WrapperExcept

Spec == Init /\ [][Next]_vars

----------------------------------------------------------------------------
(* Runs with providers and sequence specifications                         *)

\* class Extra1(ExtraAttributes) with the methods value and one, and so on;
\* Plain is a class that derives from no class of the library.
Extra1 == UserClass("Extra1", "ExtraAttributes", <<>>, {"value", "one"}, FALSE)
Extra2 == UserClass("Extra2", "ExtraAttributes", <<>>, {"value", "two"}, FALSE)
Computer1 ==
    UserClass("Computer1", "ComputedArgNames", <<>>, {"value", "other"}, FALSE)
Computer2 == UserClass("Computer2", "ComputedArgNames", <<>>, {"value"}, FALSE)
Plain == UserClass("Plain", "object", <<>>, {}, FALSE)

Msg == PyStr(<<"msg">>)
ComputedField(attr) == Field(<<COMPUTED_ARG_PREFIX, attr>>)

\* Runs about the forms of a specification: each phase gets one of them.
ResolveSpecs ==
    {PyNone, Msg, PyInt(ERROR), PyFloat,
     PyTuple(<<>>), PyList(<<>>),
     PyList(<<Msg>>),
     PyTuple(<<PyInt(ERROR), Msg>>),
     PyTuple(<<Msg, PyInt(DEBUG)>>),
     PyTuple(<<PyInt(ERROR)>>),
     PyTuple(<<Msg, Extra1, Extra2>>),
     PyList(<<Computer1, PyInt(WARNING), PyStr(ComputedField("value"))>>),
     PyTuple(<<Msg, PyFloat>>),
     PyTuple(<<PyFloat>>),
     PyList(<<Msg, Plain>>)}

ResolvePlan(p) ==
    \E enter \in ResolveSpecs, exit \in ResolveSpecs, error \in ResolveSpecs,
       behaviour \in Behaviours :
        p = Plan("resolve",
                 <<DogArgs(enter, exit, error, TRUE, "Exception")>>,
                 <<1>>, FooBarBaz, behaviour)

\* Classes whose methods consult self._args: Extra3 and Computer3 ask for
\* a parameter of the function in their __args__, Extra4 asks for nothing.
\* Computer4 asks for one of its own computed arg-names.
Extra3 == UserClass("Extra3", "ExtraAttributes", <<Name("bar")>>, {"three"}, TRUE)
Extra4 == UserClass("Extra4", "ExtraAttributes", <<>>, {"four"}, TRUE)
Computer3 ==
    UserClass("Computer3", "ComputedArgNames", <<Name("baz")>>,
              {"value", "third"}, TRUE)
Computer4 ==
    UserClass("Computer4", "ComputedArgNames", <<<<COMPUTED_ARG_PREFIX, "other">>>>,
              {"value", "other"}, FALSE)

\* Specifications with providers.
ProviderSpecs ==
    {PyNone, Msg, PyStr(Field(Name("bar"))),
     PyList(<<Msg, Extra1, Extra2>>),
     PyTuple(<<Msg, Extra2, Extra1>>),
     PyList(<<Msg, Extra2>>),
     PyList(<<PyStr(ComputedField("value") \o ComputedField("value")),
              Computer1, Computer2>>),
     PyList(<<PyStr(ComputedField("value") \o ComputedField("other")),
              Computer2, Computer1>>),
     PyTuple(<<PyInt(ERROR), PyStr(Field(Name("bar")) \o ComputedField("third")),
               Computer3, Extra3>>),
     PyList(<<Msg, Extra4>>),
     PyList(<<PyStr(ComputedField("value")), Computer4>>)}

\* The extras argument of a dog.
ExtrasArgs ==
    {PyTuple(<<>>), PyList(<<Extra1>>), PyList(<<Extra1, Extra2>>),
     PyTuple(<<Extra2, Extra1>>), PyList(<<Extra3>>)}

\* Sinks: a logger that drops what is below WARNING; two handlers; a
\* handler that takes only WARNING and above; no handler.
Sinks ==
    {[level |-> WARNING, handlers |-> <<DEBUG>>],
     [level |-> DEBUG, handlers |-> <<DEBUG, DEBUG>>],
     [level |-> DEBUG, handlers |-> <<WARNING>>],
     [level |-> DEBUG, handlers |-> <<>>]}

\* Runs with providers: the dog swallows exceptions, so that a call that
\* raises logs the enter, the error and the exit event.
ProviderPlan(p) ==
    \E enter \in ProviderSpecs, exit \in ProviderSpecs, with_error \in BOOLEAN,
       behaviour \in Behaviours :
        \E given \in (ExtrasArgs \X {TestSink})
                        \cup ({PyTuple(<<>>), PyList(<<Extra3>>)} \X Sinks) :
            p = [Plan("providers",
                      <<[DogArgs(enter, exit, IF with_error THEN exit ELSE PyNone,
                                 FALSE, "Exception")
                            EXCEPT !.extras = given[1]]>>,
                      <<1>>, FooBarBaz, behaviour)
                    EXCEPT !.sink = given[2]]

\* Runs about the extras argument: values that are no sequence, a class
\* given by itself, sequences with an element that is no class or a class
\* of no provider.
OddExtras ==
    {PyNone, PyInt(0), PyInt(1), PyFloat, PyStr(<<>>), Msg, Extra1,
     PyList(<<PyFloat>>), PyTuple(<<Extra1, PyInt(1)>>),
     PyList(<<Plain>>), PyTuple(<<Plain, Extra1>>), PyList(<<Extra1>>)}

ExtrasPlan(p) ==
    \E extras \in OddExtras, enter \in {Msg, PyList(<<Msg, Extra2>>)},
       exit \in {PyNone, Msg}, behaviour \in Behaviours :
        p = Plan("extras",
                 <<[DogArgs(enter, exit, PyNone, TRUE, "Exception")
                        EXCEPT !.extras = extras]>>,
                 <<1>>, FooBarBaz, behaviour)

\* Runs about the names providers ask for in their __args__: one class
\* asks for one name, a parameter or not, a special arg-name of some
\* phases or of none; it is given in the extras argument ("all") or in
\* the specification of one phase, the other phases being active or not.
DependencyNames ==
    {Name("bar"), Name("bear"), ARG_FUNC, ARG_RET, ARG_ERR,
     <<SPECIAL_ARG_PREFIX, "bogus">>}

Needing(kind, arg_name) ==
    UserClass(IF kind = "ExtraAttributes" THEN "Extra5" ELSE "Computer5",
              kind, <<arg_name>>, {"needy"}, TRUE)

DependencyPlan(p) ==
    \E arg_name \in DependencyNames, place \in PhaseSet \cup {"all"},
       kind \in {"ExtraAttributes", "ComputedArgNames"},
       active \in SUBSET PhaseSet, propagate \in BOOLEAN,
       func \in {FooBarBaz, FooNoArgs}, behaviour \in Behaviours :
        /\ place = "all" => kind = "ExtraAttributes"
        /\ place # "all" => place \in active
        /\ LET spec(phase) ==
                    IF phase = place
                    THEN PyList(<<Msg, Needing(kind, arg_name)>>)
                    ELSE IF phase \in active THEN Msg ELSE PyNone
           IN  p = Plan("dependencies",
                        <<[DogArgs(spec("enter"), spec("exit"), spec("error"),
                                   propagate, "Exception")
                            EXCEPT !.extras =
                                IF place = "all"
                                THEN PyList(<<Needing(kind, arg_name)>>)
                                ELSE PyTuple(<<>>)]>>,
                        <<1>>, func, behaviour)

\* Runs about computed arg-names: a phase requires one that its
\* Computed providers supply or not, that begins with an underscore, or
\* that is the prefix alone, through its template or through the __args__
\* of a provider; with a Computed provider or without.
ComputedSpecs ==
    {PyNone,
     PyStr(ComputedField("value")),
     PyList(<<PyStr(ComputedField("value")), Computer2>>),
     PyList(<<PyStr(ComputedField("other")), Computer2>>),
     PyList(<<PyStr(ComputedField("value") \o ComputedField("other")), Computer1>>),
     PyList(<<PyStr(ComputedField("_hidden")), Computer2>>),
     PyList(<<PyStr(Field(<<COMPUTED_ARG_PREFIX>>)), Computer2>>),
     PyList(<<Msg, Computer1>>),
     PyList(<<Msg, Needing("ExtraAttributes", <<COMPUTED_ARG_PREFIX, "value">>)>>)}

ComputedPlan(p) ==
    \E enter \in ComputedSpecs, exit \in ComputedSpecs, behaviour \in Behaviours :
        p = Plan("computed",
                 <<DogArgs(enter, exit, PyNone, TRUE, "Exception")>>,
                 <<1>>, FooBarBaz, behaviour)

\* Runs in which logging an event raises: the cross-phase extras hold a
\* class that cannot be instantiated with the builder (or one that can),
\* every combination of active phases, propagation and catch filter.
RaisingPlan(p) ==
    \E extras \in {PyList(<<Plain>>), PyList(<<Extra1>>)},
       enter \in {PyNone, Msg}, exit \in {PyNone, Msg}, error \in {PyNone, Msg},
       propagate \in BOOLEAN, catch \in {"Exception", "KeyError"},
       behaviour \in Behaviours :
        p = Plan("raising",
                 <<[DogArgs(enter, exit, error, propagate, catch)
                        EXCEPT !.extras = extras]>>,
                 <<1>>, FooBarBaz, behaviour)

\* Runs about the categories of arg-names: a phase is disabled or logs
\* '{bar}{>value}{@func}' with a Computed provider, and the extras
\* argument is empty or holds a provider that names baz, @line and >other.
Extra6 ==
    UserClass("Extra6", "ExtraAttributes",
              <<Name("baz"), ARG_LINE, <<COMPUTED_ARG_PREFIX, "other">>>>,
              {"six"}, TRUE)

CategorySpecs ==
    {PyNone,
     PyList(<<PyStr(Field(Name("bar")) \o ComputedField("value") \o Field(ARG_FUNC)),
              Computer1>>)}

CategoryPlan(p) ==
    \E extras \in {PyTuple(<<>>), PyList(<<Extra6>>)},
       enter \in CategorySpecs, exit \in CategorySpecs, error \in CategorySpecs,
       behaviour \in Behaviours :
        p = Plan("categories",
                 <<[DogArgs(enter, exit, error, TRUE, "Exception")
                        EXCEPT !.extras = extras]>>,
                 <<1>>, FooBarBaz, behaviour)

InitProviders ==
    /\ \/ ResolvePlan(plan)
       \/ ProviderPlan(plan)
       \/ ExtrasPlan(plan)
       \/ DependencyPlan(plan)
       \/ ComputedPlan(plan)
       \/ RaisingPlan(plan)
       \/ CategoryPlan(plan)
    /\ Start

SpecProviders == InitProviders /\ [][Next]_vars

----------------------------------------------------------------------------
(* What a run shows                                                        *)

\* Every decoration of the plan is done: chain holds the function and,
\* above it, one wrapper per decoration, the outermost last.
Decorated == Len(chain) = Len(plan.layers) + 1
Wrappers == 2..Len(chain)
Guard(layer) == chain[layer].closure

\* The call of the decorated function is over.
Done == outcome.kind # "none"

\* The positions in records of the events layer emitted for phase, and
\* the position of the record the body of the function left.
Events(layer, phase) ==
    {i \in 1..Len(records) :
        /\ records[i].kind = "log"
        /\ records[i].layer = layer
        /\ records[i].phase = phase}
BodyRecords == {i \in 1..Len(records) : records[i].kind = "body"}

Active(layer, phase) == Guard(layer).format[phase] # PyNone
Expect(layer, phase) == IF Active(layer, phase) THEN 1 ELSE 0

\* How the call of chain[layer] ends according to the contract of the
\* wrapper: the function does what the plan says; a wrapper hands on a
\* returned value, hands on an exception it does not catch or propagates,
\* and otherwise returns default_ret.
RECURSIVE Ends(_)
Ends(layer) ==
    IF layer = 1
    THEN [kind |-> plan.behaviour.kind, value |-> plan.behaviour.value,
          exc |-> plan.behaviour.exc]
    ELSE LET inner == Ends(layer - 1)
         IN  IF inner.kind = "return" THEN inner
             ELSE IF Guard(layer).catch \notin ExcBases(inner.exc.cls) THEN inner
             ELSE IF Guard(layer).propagate THEN inner
             ELSE [kind |-> "return", value |-> Guard(layer).default_ret,
                   exc |-> NoExc]

\* The regular arg-names of the event at position i have the values of
\* the arguments of the call.
SameArguments(i, layer, phase) ==
    \A n \in Guard(layer).regular_arg_names[phase] :
        /\ n \in DOMAIN records[i].args
        /\ records[i].args[n] = plan.callargs[n]

\* C1: when the function a wrapper wraps returns normally, the wrapper
\* emits one enter event before the body runs if the enter phase is
\* active, one exit event after the body if the exit phase is active, that
\* event rendered with the arguments of the call and @ret = the returned
\* value, no error event, nothing for a phase that is not active, and the
\* caller gets the value the function returned.
C1_NormalReturn ==
    (Decorated /\ Done) =>
        \A layer \in Wrappers :
            Ends(layer - 1).kind = "return" =>
                /\ Cardinality(Events(layer, "enter")) = Expect(layer, "enter")
                /\ Cardinality(Events(layer, "exit")) = Expect(layer, "exit")
                /\ Events(layer, "error") = {}
                /\ \A i \in Events(layer, "enter"), b \in BodyRecords : i < b
                /\ \A i \in Events(layer, "exit"), b \in BodyRecords : b < i
                /\ \A i \in Events(layer, "enter") :
                        records[i].rendered /\ SameArguments(i, layer, "enter")
                /\ \A i \in Events(layer, "exit") :
                        /\ records[i].rendered
                        /\ SameArguments(i, layer, "exit")
                        /\ ARG_RET \in Guard(layer).special_arg_names["exit"] =>
                                records[i].args[ARG_RET] = Ends(layer - 1).value
                /\ layer = Len(chain) =>
                        /\ outcome.kind = "return"
                        /\ outcome.value = Ends(layer - 1).value

\* A run of foo('cake', 'lie') decorated once with enter and exit formats:
\* the enter event, the body, the exit event with @ret, and the value.
C1_Witness ==
    /\ Decorated /\ Done
    /\ Len(chain) = 2
    /\ plan.behaviour.kind = "return"
    /\ Len(records) = 3
    /\ records[1].phase = "enter" /\ records[1].message = <<"cake", "lie">>
    /\ records[2].kind = "body"
    /\ records[3].phase = "exit" /\ records[3].message = <<"cake", "lie", "r1">>
    /\ outcome.value = "r1"

\* The exception chain[layer] raised has left it: the caller of the
\* decorated function has it, or the wrapper above is handling it.
Left(layer) ==
    \/ layer = Len(chain) /\ outcome.kind = "raise"
    \/ /\ layer < Len(chain)
       /\ \E k \in 1..Len(stack) :
            stack[k].callee = layer + 1 /\ stack[k].pc = "raised"

\* The wrapper catches what the function it wraps raises.
Catches(layer) ==
    /\ Ends(layer - 1).kind = "raise"
    /\ Guard(layer).catch \in ExcBases(Ends(layer - 1).exc.cls)

\* C2: when the function a wrapper wraps raises an exception the catch
\* filter matches and propagation is enabled, the wrapper never emits an
\* exit event, emits at most one error event, has emitted it (if the error
\* phase is active) by the time the exception has left the wrapper, and
\* the caller gets the exception object the function raised.
C2_PropagatedException ==
    Decorated =>
        \A layer \in Wrappers :
            (Catches(layer) /\ Guard(layer).propagate) =>
                /\ Events(layer, "exit") = {}
                /\ Cardinality(Events(layer, "error")) <= Expect(layer, "error")
                /\ \A i \in Events(layer, "error"), b \in BodyRecords : b < i
                /\ (Left(layer) \/ Done) =>
                        Cardinality(Events(layer, "error")) = Expect(layer, "error")
                /\ (Done /\ layer = Len(chain)) =>
                        /\ outcome.kind = "raise"
                        /\ outcome.exc = plan.behaviour.exc

\* Only the error phase is active: the one event is the error message,
\* with the exception the body raised, and the caller has that exception.
C2_Witness ==
    /\ Decorated /\ Done
    /\ Len(chain) = 2
    /\ Guard(2).propagate
    /\ ~Active(2, "enter") /\ ~Active(2, "exit")
    /\ Len(records) = 2
    /\ records[1].kind = "body"
    /\ records[2].phase = "error"
    /\ records[2].message = <<"cake", plan.behaviour.exc>>
    /\ outcome.kind = "raise" /\ outcome.exc.id = 1

C4_UnmatchedException ==
    Decorated =>
        \A layer \in Wrappers :
            (Ends(layer - 1).kind = "raise" /\ ~Catches(layer)) =>
                /\ Events(layer, "error") = {}
                /\ Events(layer, "exit") = {}
                /\ (Done /\ layer = Len(chain)) =>
                        /\ outcome.kind = "raise"
                        /\ outcome.exc = plan.behaviour.exc

\* A dog that catches KeyError only, with propagation disabled and the
\* error and exit phases active, lets a ZeroDivisionError through.
C4_Witness ==
    /\ Decorated /\ Done
    /\ Len(chain) = 2
    /\ Guard(2).catch = "KeyError"
    /\ ~Guard(2).propagate
    /\ Active(2, "error") /\ Active(2, "exit") /\ Active(2, "enter")
    /\ Len(records) = 2
    /\ records[1].phase = "enter"
    /\ records[2].kind = "body"
    /\ outcome.kind = "raise" /\ outcome.exc.cls = "ZeroDivisionError"

\* The events a wrapper emits after the body: its error and exit events.
After(layer) == Events(layer, "error") \cup Events(layer, "exit")

\* C5: when a function is wrapped more than once, by one dog or several,
\* the events nest: the enter event of an outer wrapper comes before that
\* of an inner one, every enter event comes before the body, and the error
\* or exit event of an inner wrapper comes before that of an outer one;
\* when every wrapper propagates an exception it catches, each emits its
\* one error event (if its error phase is active) and the caller gets the
\* exception object the body raised.
C5_DoubleWrapping ==
    (Decorated /\ Done /\ Len(chain) >= 3) =>
        /\ \A inner \in Wrappers, outer \in Wrappers :
                inner < outer =>
                    /\ \A i \in Events(outer, "enter"), j \in Events(inner, "enter") :
                            i < j
                    /\ \A i \in After(inner), j \in After(outer) : i < j
        /\ \A layer \in Wrappers :
                /\ Cardinality(Events(layer, "enter")) = Expect(layer, "enter")
                /\ \A i \in Events(layer, "enter"), b \in BodyRecords : i < b
                /\ \A i \in After(layer), b \in BodyRecords : b < i
        /\ Cardinality(BodyRecords) = 1
        /\ (\A layer \in Wrappers : Catches(layer) /\ Guard(layer).propagate) =>
                /\ \A layer \in Wrappers :
                        /\ Cardinality(Events(layer, "error")) = Expect(layer, "error")
                        /\ Events(layer, "exit") = {}
                /\ outcome.kind = "raise"
                /\ outcome.exc = plan.behaviour.exc

\* Two dogs wrap a function that raises: outer enter, inner enter, body,
\* inner error, outer error, and the exception reaches the caller.
C5_Witness ==
    /\ Decorated /\ Done
    /\ Len(chain) = 3
    /\ plan.layers = <<1, 2>>
    /\ Len(records) = 5
    /\ records[1].phase = "enter" /\ records[1].layer = 3
    /\ records[2].phase = "enter" /\ records[2].layer = 2
    /\ records[3].kind = "body"
    /\ records[4].phase = "error" /\ records[4].layer = 2
    /\ records[5].phase = "error" /\ records[5].layer = 3
    /\ outcome.kind = "raise" /\ outcome.exc.id = 1

----------------------------------------------------------------------------
(* What the arguments of a dog ask for                                     *)

\* The texts between an opening brace and the next closing brace of a
\* format string made of plain replacement fields.
FieldNames(format_string) ==
    {SubSeq(format_string, i + 1, j - 1) :
        <<i, j>> \in {ij \in (1..Len(format_string)) \X (1..Len(format_string)) :
            /\ ij[1] < ij[2]
            /\ format_string[ij[1]] = "{"
            /\ format_string[ij[2]] = "}"
            /\ \A k \in (ij[1] + 1)..(ij[2] - 1) :
                    format_string[k] \notin {"{", "}"}}}

\* The arg-names one part of a specification requires: the fields of a
\* format string, the __args__ of a provider class.
RequiredByPart(part) ==
    IF part.t = "str" THEN FieldNames(part.v)
    ELSE IF part.t = "type" THEN {part.v.args[i] : i \in 1..Len(part.v.args)}
    ELSE {}

\* The arg-names the specification of a phase requires.
Required(a, phase) ==
    IF a[phase].t \in {"tuple", "list"}
    THEN UNION {RequiredByPart(a[phase].v[i]) : i \in 1..Len(a[phase].v)}
    ELSE RequiredByPart(a[phase])

RequiredSpecial(a, phase) ==
    {n \in Required(a, phase) : n # <<>> /\ n[1] = "@"}
RequiredRegular(a) ==
    UNION {{n \in Required(a, phase) : n = <<>> \/ n[1] \notin {"@", ">"}} :
            phase \in PhaseSet}

\* The table of the special arg-names each phase may use.
AllowedAtEnter == {<<"@", "pathname">>, <<"@", "line">>, <<"@", "logger">>,
                   <<"@", "func">>}
AllowedAtExit == AllowedAtEnter \cup {<<"@", "time">>, <<"@", "ret">>}
AllowedAtError == AllowedAtExit \cup {<<"@", "err">>, <<"@", "traceback">>}
Allowed(phase) ==
    CASE phase = "enter" -> AllowedAtEnter
      [] phase = "exit" -> AllowedAtExit
      [] phase = "error" -> AllowedAtError

SpecialNamesAllowed(a) ==
    \A phase \in PhaseSet : RequiredSpecial(a, phase) \subseteq Allowed(phase)

\* The runs whose format strings are made of plain replacement fields.
PlainFields == plan.family # "format"

\* C6: the construction of a dog fails with ValueError when a phase
\* requires a special arg-name that is not in the table for that phase
\* (an unknown "@" name is in no table), and succeeds when every phase
\* requires only names of its table, leaving aside @ret in the error
\* phase of a dog that propagates, which the table makes conditional.
C6_SpecialNamesPerPhase ==
    \A k \in 1..Len(init) :
        LET a == plan.dogArgs[k]
        IN  /\ ~SpecialNamesAllowed(a) =>
                    ~init[k].ok /\ init[k].err = "ValueError"
            /\ ( /\ PlainFields
                 /\ SpecialNamesAllowed(a)
                 /\ ~( /\ a.propagate_exception
                       /\ <<"@", "ret">> \in RequiredSpecial(a, "error")) ) =>
                    init[k].ok

\* @err is asked for at exit and at error: the error phase alone would
\* pass, the exit phase makes the construction fail.
C6_Witness ==
    /\ Len(init) = 1
    /\ plan.dogArgs[1].enter = PyStr(Field(ARG_FUNC))
    /\ plan.dogArgs[1].exit = PyStr(Field(ARG_ERR))
    /\ plan.dogArgs[1].error = PyStr(Field(ARG_ERR))
    /\ ~init[1].ok
    /\ init[1].err = "ValueError"
    /\ init[1].names = {ARG_ERR}

\* C7: when the error phase requires @ret, through its format string or
\* through the __args__ of a provider, the construction fails if the dog
\* propagates exceptions and succeeds if it does not (the other special
\* arg-names being allowed); the error event then has @ret = default_ret.
C7_RetAtError ==
    /\ \A k \in 1..Len(init) :
        LET a == plan.dogArgs[k]
        IN  <<"@", "ret">> \in RequiredSpecial(a, "error") =>
                IF a.propagate_exception
                THEN ~init[k].ok /\ init[k].err = "ValueError"
                ELSE (PlainFields /\ SpecialNamesAllowed(a)) => init[k].ok
    /\ Decorated =>
        \A layer \in Wrappers :
            <<"@", "ret">> \in
                    RequiredSpecial(plan.dogArgs[plan.layers[layer - 1]], "error") =>
                \A i \in Events(layer, "error") :
                    /\ records[i].rendered
                    /\ records[i].args[<<"@", "ret">>] =
                            plan.dogArgs[plan.layers[layer - 1]].default_ret

\* The error format is "{@ret}", the dog swallows the exception, and the
\* error message shows default_ret.
C7_Witness ==
    /\ Decorated /\ Done
    /\ Len(chain) = 2
    /\ plan.dogArgs[1].error = PyStr(Field(ARG_RET))
    /\ ~plan.dogArgs[1].propagate_exception
    /\ \E i \in Events(2, "error") : records[i].message = <<"d123">>
    /\ outcome.kind = "return"

FormalParameters(func) ==
    {func.args[i] : i \in 1..Len(func.args)}
    \cup {x.v : x \in {y \in {func.varargs, func.keywords} : y.t = "str"}}

\* C8: a decoration succeeds exactly when every regular arg-name the
\* phases require is a parameter name of the function, the names of the
\* *args and **kwargs parameters included; otherwise it fails with a
\* TypeError that names every such arg-name of every phase.
C8_RegularNamesAreParameters ==
    PlainFields =>
        \A k \in 1..Len(deco) :
            LET regular == RequiredRegular(plan.dogArgs[plan.layers[k]])
                unknown == regular \ FormalParameters(plan.func)
            IN  /\ deco[k].ok = (unknown = {})
                /\ ~deco[k].ok =>
                        /\ deco[k].err = "TypeError"
                        /\ deco[k].names = unknown

\* foo(*bar, **baz) decorated by a dog whose phases require bar and baz,
\* bear, and bar and buzz: the TypeError names bear and buzz.
C8_Witness ==
    /\ Len(deco) = 1
    /\ plan.func = FooStarBarBaz
    /\ RequiredRegular(plan.dogArgs[1]) =
            {Name("bar"), Name("baz"), Name("bear"), Name("buzz")}
    /\ Required(plan.dogArgs[1], "exit") = {Name("bear")}
    /\ ~deco[1].ok
    /\ deco[1].names = {Name("bear"), Name("buzz")}

HasCatchAll(func) == func.varargs.t = "str" \/ func.keywords.t = "str"

\* C9 as stated: whatever regular arg-names the phases require, the
\* decoration of a function that has a *args or **kwargs parameter
\* succeeds.
C9_CatchAllAbsorbsAnyName ==
    \A k \in 1..Len(deco) : HasCatchAll(plan.func) => deco[k].ok

\* C9: a *args or **kwargs parameter answers to its own name only: the
\* decoration of a function that has one succeeds when the regular
\* arg-names are names of its parameters, and otherwise fails naming
\* arg-names none of which is the name of a catch-all parameter.
C9_CatchAllAnswersToItsName ==
    (PlainFields /\ HasCatchAll(plan.func)) =>
        \A k \in 1..Len(deco) :
            LET regular == RequiredRegular(plan.dogArgs[plan.layers[k]])
                named == {plan.func.args[i] : i \in 1..Len(plan.func.args)}
                own == {x.v : x \in {y \in {plan.func.varargs, plan.func.keywords} :
                                        y.t = "str"}}
            IN  IF regular \subseteq named \cup own
                THEN deco[k].ok
                ELSE /\ ~deco[k].ok
                     /\ deco[k].names # {}
                     /\ deco[k].names \cap (named \cup own) = {}

\* foo(bar, *baz) decorated by a dog whose phases require bar and baz.
C9_Witness ==
    /\ Len(deco) = 1
    /\ plan.func = FooBarStarBaz
    /\ RequiredRegular(plan.dogArgs[1]) = {Name("bar"), Name("baz")}
    /\ deco[1].ok

----------------------------------------------------------------------------
(* The grammar of format strings                                           *)

\* The position of the brace that closes the replacement field opened
\* before position i, depth braces being open; 0 when there is none.
RECURSIVE ClosingBrace(_, _, _)
ClosingBrace(t, i, depth) ==
    IF i > Len(t) THEN 0
    ELSE IF t[i] = "{" THEN ClosingBrace(t, i + 1, depth + 1)
    ELSE IF t[i] = "}"
    THEN IF depth = 1 THEN i ELSE ClosingBrace(t, i + 1, depth - 1)
    ELSE ClosingBrace(t, i + 1, depth)

\* The replacement fields of t from position i on, as the texts between
\* their braces; a doubled brace is a literal brace; balanced is FALSE
\* when a brace has no partner.
RECURSIVE ReplacementFields(_, _)
ReplacementFields(t, i) ==
    IF i > Len(t) THEN [balanced |-> TRUE, fields |-> <<>>]
    ELSE IF t[i] \notin {"{", "}"} THEN ReplacementFields(t, i + 1)
    ELSE IF i < Len(t) /\ t[i + 1] = t[i] THEN ReplacementFields(t, i + 2)
    ELSE IF t[i] = "}" \/ ClosingBrace(t, i + 1, 1) = 0
    THEN [balanced |-> FALSE, fields |-> <<>>]
    ELSE LET close == ClosingBrace(t, i + 1, 1)
             rest == ReplacementFields(t, close + 1)
         IN  [balanced |-> rest.balanced,
              fields |-> <<SubSeq(t, i + 1, close - 1)>> \o rest.fields]

\* The part of s before the first token of marks.
Before(s, marks) ==
    IF \E k \in 1..Len(s) : s[k] \in marks
    THEN SubSeq(s, 1, (CHOOSE k \in 1..Len(s) :
                        /\ s[k] \in marks
                        /\ \A j \in 1..(k - 1) : s[j] \notin marks) - 1)
    ELSE s

\* A field is its name with its attribute and index accesses, then "!"
\* and a conversion, then ":" and a format spec.
AccessPath(field) == Before(field, {"!", ":"})
FieldArgName(field) == Before(AccessPath(field), {".", "["})

IsInteger(n) ==
    \/ n # <<>> /\ \A i \in 1..Len(n) : n[i] \in {"0", "1"}
    \/ /\ Len(n) >= 2
       /\ n[1] \in {"-", "+"}
       /\ \A i \in 2..Len(n) : n[i] \in {"0", "1"}

PositionalField(field) ==
    FieldArgName(field) = <<>> \/ IsInteger(FieldArgName(field))

\* Position k of the access path is outside the brackets of an index.
OutsideIndex(path, k) ==
    Cardinality({j \in 1..(k - 1) : path[j] = "["})
        = Cardinality({j \in 1..(k - 1) : path[j] = "]"})

\* An attribute access with no attribute, an index access with no index.
EmptyAccess(field) ==
    LET path == AccessPath(field)
    IN  \E k \in 1..Len(path) :
            /\ OutsideIndex(path, k)
            /\ \/ /\ path[k] = "."
                  /\ (k = Len(path) \/ path[k + 1] \in {".", "["})
               \/ /\ path[k] = "["
                  /\ k < Len(path)
                  /\ path[k + 1] = "]"

\* "!" followed by nothing or by something other than "r" or "s".
BadConversion(field) ==
    LET k == Len(Before(field, {"!", ":"})) + 1
    IN  /\ k <= Len(field)
        /\ field[k] = "!"
        /\ (k = Len(field) \/ field[k + 1] \notin {"r", "s"})

PlainToken(token) == token \notin {"{", "}", ".", "[", "]", "!", ":"}

\* The accesses after the arg-name: ".attribute" and "[index]", each with
\* a plain text.
RECURSIVE WellFormedAccesses(_)
WellFormedAccesses(r) ==
    IF r = <<>> THEN TRUE
    ELSE IF Len(r) >= 2 /\ r[1] = "." /\ PlainToken(r[2])
    THEN WellFormedAccesses(SubSeq(r, 3, Len(r)))
    ELSE IF Len(r) >= 3 /\ r[1] = "[" /\ PlainToken(r[2]) /\ r[3] = "]"
    THEN WellFormedAccesses(SubSeq(r, 4, Len(r)))
    ELSE FALSE

\* A named field of the documented grammar: a name that is one plain
\* token and no integer, accesses, an optional conversion "r" or "s", an
\* optional format spec of plain tokens.
WellFormedNamedField(field) ==
    LET path == AccessPath(field)
        name == FieldArgName(field)
        after == SubSeq(field, Len(path) + 1, Len(field))
        spec == IF after # <<>> /\ after[1] = "!"
                THEN SubSeq(after, 3, Len(after))
                ELSE after
    IN  /\ Len(name) = 1 /\ PlainToken(name[1]) /\ ~IsInteger(name)
        /\ name[1] \notin {"@", ">"}
        /\ WellFormedAccesses(SubSeq(path, 2, Len(path)))
        /\ (after # <<>> /\ after[1] = "!") =>
                Len(after) >= 2 /\ after[2] \in {"r", "s"}
        /\ spec # <<>> =>
                /\ spec[1] = ":"
                /\ \A i \in 2..Len(spec) : PlainToken(spec[i])

WellFormedTemplate(t) ==
    LET found == ReplacementFields(t, 1)
    IN  /\ found.balanced
        /\ \A i \in 1..Len(found.fields) : WellFormedNamedField(found.fields[i])

RejectedTemplate(t) ==
    LET found == ReplacementFields(t, 1)
    IN  \/ ~found.balanced
        \/ \E i \in 1..Len(found.fields) :
                \/ PositionalField(found.fields[i])
                \/ EmptyAccess(found.fields[i])
                \/ BadConversion(found.fields[i])

\* C10: the construction of a dog succeeds when each phase has no
\* specification or a format string made of text and well-formed named
\* fields, whose names then are the regular arg-names of the phase (none
\* for a format string without fields); it fails with ValueError when the
\* format string of some phase has a brace without partner, a field whose
\* name is empty or an integer, an attribute or index access that is
\* empty, or a conversion that is empty or unknown.
C10_FormatStrings ==
    \A k \in 1..Len(init) :
        LET a == plan.dogArgs[k]
            given == {phase \in PhaseSet : a[phase].t = "str"}
        IN  /\ (\E phase \in given : RejectedTemplate(a[phase].v)) =>
                    ~init[k].ok /\ init[k].err = "ValueError"
            /\ ( /\ \A phase \in PhaseSet : a[phase].t \in {"str", "NoneType"}
                 /\ \A phase \in given : WellFormedTemplate(a[phase].v) ) =>
                    /\ init[k].ok
                    /\ \A phase \in given :
                        init[k].regular_arg_names[phase] =
                            {FieldArgName(f) : f \in
                                {ReplacementFields(a[phase].v, 1).fields[i] :
                                    i \in 1..Len(ReplacementFields(a[phase].v, 1).fields)}}

\* The exit format is "{bar}{0}": the second field is positional.
C10_Witness ==
    /\ Len(init) = 1
    /\ plan.dogArgs[1].exit = PyStr(<<"{", "bar", "}", "{", "0", "}">>)
    /\ plan.dogArgs[1].enter = PyNone
    /\ ~init[1].ok
    /\ init[1].err = "ValueError"

----------------------------------------------------------------------------
(* Specifications, providers and the sink: what a run shows                *)

\* The positions in records of the calls of logger.log layer made for
\* phase, whether the sink made a record of the call or dropped it.
Calls(layer, phase) ==
    {i \in 1..Len(records) :
        /\ records[i].kind \in {"log", "dropped"}
        /\ records[i].layer = layer
        /\ records[i].phase = phase}

\* The arguments of the dog that made the wrapper chain[layer].
ArgsOf(layer) == plan.dogArgs[plan.layers[layer - 1]]

IsSequence(spec) == spec.t \in {"tuple", "list"}
Parts(spec) == {spec.v[i] : i \in 1..Len(spec.v)}
IsLevel(part) == part.t = "int"
IsTemplate(part) == part.t = "str"
IsExtra(part) == part.t = "type" /\ part.v.kind = "ExtraAttributes"
IsComputed(part) == part.t = "type" /\ part.v.kind = "ComputedArgNames"
Recognized(part) ==
    IsLevel(part) \/ IsTemplate(part) \/ IsExtra(part) \/ IsComputed(part)

\* What the resolution of a specification has to fail with, "" when it
\* has to succeed.
ResolutionError(spec) ==
    IF spec.t \in {"NoneType", "str"} THEN ""
    ELSE IF ~IsSequence(spec) THEN "TypeError"
    ELSE IF \E part \in Parts(spec) : ~Recognized(part) THEN "TypeError"
    ELSE IF ~\E part \in Parts(spec) : IsTemplate(part) THEN "ValueError"
    ELSE ""

\* The level and the template a well-formed specification gives.
LevelOf(spec) ==
    IF IsSequence(spec) /\ \E part \in Parts(spec) : IsLevel(part)
    THEN (CHOOSE part \in Parts(spec) : IsLevel(part)).v
    ELSE 20
TemplateOf(spec) ==
    IF IsSequence(spec) THEN CHOOSE part \in Parts(spec) : IsTemplate(part)
    ELSE spec
ProvidersOf(spec, kind) ==
    IF IsSequence(spec)
    THEN {part.v : part \in {q \in Parts(spec) : q.t = "type" /\ q.v.kind = kind}}
    ELSE {}

\* The user classes a slot of a dog holds.
ClassesOf(slot) ==
    IF slot.t = "type" THEN {slot.mro[i] : i \in 1..Len(slot.mro)} ELSE {}

\* C11: the construction of a dog (given no extras argument) fails when
\* the specification of a phase is neither None, a string, a list nor a
\* tuple (TypeError), is a sequence with an element that is no level, no
\* string and no provider class (TypeError), or is a sequence of such
\* elements without a string (ValueError), the first such phase deciding.
\* Otherwise a phase whose specification is None has no level, no template
\* and no provider and logs nothing; a string is the template, at level
\* INFO, without providers; a sequence gives its level (INFO without one),
\* its string and its provider classes; every event of the phase has the
\* level of the specification.
C11_Resolution ==
    /\ \A k \in 1..Len(init) :
        LET a == plan.dogArgs[k]
            bad == {phase \in PhaseSet : ResolutionError(a[phase]) # ""}
            first == IF "enter" \in bad THEN "enter"
                     ELSE IF "exit" \in bad THEN "exit" ELSE "error"
        IN  a.extras = PyTuple(<<>>) =>
                /\ bad # {} =>
                        ~init[k].ok /\ init[k].err = ResolutionError(a[first])
                /\ (bad = {} /\ plan.family = "resolve") => init[k].ok
                /\ init[k].ok =>
                        \A phase \in PhaseSet :
                            IF a[phase].t = "NoneType"
                            THEN /\ init[k].level[phase] = PyNone
                                 /\ init[k].format[phase] = PyNone
                                 /\ init[k].extras[phase] = PyNone
                                 /\ init[k].computer[phase] = PyNone
                            ELSE /\ init[k].level[phase] = PyInt(LevelOf(a[phase]))
                                 /\ init[k].format[phase] = TemplateOf(a[phase])
                                 /\ ClassesOf(init[k].extras[phase]) =
                                        ProvidersOf(a[phase], "ExtraAttributes")
                                 /\ ClassesOf(init[k].computer[phase]) =
                                        ProvidersOf(a[phase], "ComputedArgNames")
    /\ Decorated =>
        \A layer \in Wrappers, phase \in PhaseSet :
            IF ArgsOf(layer)[phase].t = "NoneType"
            THEN Calls(layer, phase) = {}
            ELSE \A i \in Calls(layer, phase) :
                    records[i].level = LevelOf(ArgsOf(layer)[phase])

\* enter is (ERROR, 'msg') and exit is [Computer1, WARNING, '{>value}']:
\* the enter event is logged at ERROR, the exit event at WARNING.
C11_Witness ==
    /\ Decorated /\ Done
    /\ plan.dogArgs[1].enter = PyTuple(<<PyInt(40), PyStr(<<"msg">>)>>)
    /\ plan.dogArgs[1].exit.t = "list"
    /\ plan.dogArgs[1].error = PyNone
    /\ \E i \in Events(2, "enter") : records[i].level = 40
    /\ \E i \in Events(2, "exit") :
            records[i].level = 30 /\ records[i].message = <<"Computer1">>
    /\ outcome.kind = "return"

----------------------------------------------------------------------------
(* Several providers on one phase                                          *)

\* The provider classes of one kind attached to a phase of a dog, in the
\* order of attachment: those of the extras argument, then those of the
\* specification of the phase.
RECURSIVE ClassesIn(_, _)
ClassesIn(parts, kind) ==
    IF parts = <<>> THEN <<>>
    ELSE IF Head(parts).t = "type" /\ Head(parts).v.kind = kind
    THEN <<Head(parts).v>> \o ClassesIn(Tail(parts), kind)
    ELSE ClassesIn(Tail(parts), kind)

Attached(a, phase, kind) ==
    (IF kind = "ExtraAttributes" /\ IsSequence(a.extras)
     THEN ClassesIn(a.extras.v, kind) ELSE <<>>)
    \o (IF IsSequence(a[phase]) THEN ClassesIn(a[phase].v, kind) ELSE <<>>)

\* The positions of the classes of attached that define attr.
Defining(attached, attr) == {n \in 1..Len(attached) : attr \in attached[n].attrs}

\* The name of the last class of attached that defines attr.
LastDefining(attached, attr) ==
    LET last == CHOOSE n \in Defining(attached, attr) :
                    \A m \in Defining(attached, attr) : m <= n
    IN  attached[last].name

\* The replacement fields of the template of a phase, in order.
FieldsOf(a, phase) == get_format_arg_names(TemplateOf(a[phase]).v).names

\* C12: on every record a phase emits, an attribute that the Extra
\* providers attached to the phase define has the value the last of them
\* in the order of attachment gives, and in every rendered message a
\* computed field has the value the last Computed provider of the phase
\* that defines it gives; an attribute only one provider defines has that
\* provider's value.
C12_LastProviderWins ==
    Decorated =>
        \A layer \in Wrappers, phase \in PhaseSet :
            \A i \in Events(layer, phase) :
                LET a == ArgsOf(layer)
                    extras == Attached(a, phase, "ExtraAttributes")
                    computers == Attached(a, phase, "ComputedArgNames")
                    fields == FieldsOf(a, phase)
                IN  /\ \A attr \in UNION {extras[n].attrs : n \in 1..Len(extras)} :
                            /\ attr \in DOMAIN records[i].extra
                            /\ records[i].extra[attr] = LastDefining(extras, attr)
                    /\ records[i].rendered =>
                        \A j \in 1..Len(fields) :
                            fields[j][1] = COMPUTED_ARG_PREFIX =>
                                records[i].message[j] =
                                    LastDefining(computers, fields[j][2])

\* enter is ['msg', Extra1, Extra2] and exit is ('msg', Extra2, Extra1):
\* value comes from Extra2 at enter and from Extra1 at exit, one and two
\* from the only class that defines them.
C12_Witness ==
    /\ Decorated /\ Done
    /\ plan.dogArgs[1].enter = PyList(<<Msg, Extra1, Extra2>>)
    /\ plan.dogArgs[1].exit = PyTuple(<<Msg, Extra2, Extra1>>)
    /\ plan.dogArgs[1].extras = PyTuple(<<>>)
    /\ \E i \in Events(2, "enter") :
            records[i].extra = [value |-> "Extra2", one |-> "Extra1", two |-> "Extra2"]
    /\ \E i \in Events(2, "exit") :
            records[i].extra = [value |-> "Extra1", one |-> "Extra1", two |-> "Extra2"]

\* enter is ['{>value}{>value}', Computer1, Computer2] and exit is
\* ['{>value}{>other}', Computer2, Computer1].
C12_WitnessComputed ==
    /\ Decorated /\ Done
    /\ \E i \in Events(2, "enter") :
            records[i].message = <<"Computer2", "Computer2">>
    /\ \E i \in Events(2, "exit") :
            records[i].message = <<"Computer1", "Computer1">>

----------------------------------------------------------------------------
(* The extras argument                                                     *)

IsProviderClass(part) == IsExtra(part) \/ IsComputed(part)

\* The extras argument is a list or a tuple of provider classes.
ProvidersGiven(extras) ==
    IsSequence(extras) /\ \A part \in Parts(extras) : IsProviderClass(part)

\* On the records layer emits, every attribute of the classes of the
\* extras argument is a field; its value is that of the last class of the
\* phase's specification that defines it, or else of the last class of
\* the extras argument that does.
ExtrasMerged(layer) ==
    \A phase \in PhaseSet : \A i \in Events(layer, phase) :
        LET a == ArgsOf(layer)
            given == ClassesIn(a.extras.v, "ExtraAttributes")
            own == IF IsSequence(a[phase])
                   THEN ClassesIn(a[phase].v, "ExtraAttributes") ELSE <<>>
        IN  \A attr \in UNION {given[n].attrs : n \in 1..Len(given)} :
                /\ attr \in DOMAIN records[i].extra
                /\ records[i].extra[attr] =
                        IF Defining(own, attr) # {}
                        THEN LastDefining(own, attr)
                        ELSE LastDefining(given, attr)

\* Every active phase of layer holds the classes of the extras argument
\* and those of its own specification.
ExtrasApplied(layer) ==
    \A phase \in PhaseSet :
        Active(layer, phase) =>
            LET attached == Attached(ArgsOf(layer), phase, "ExtraAttributes")
            IN  ClassesOf(Guard(layer).extras[phase]) =
                    {attached[n] : n \in 1..Len(attached)}

\* C13: the classes of the extras argument are attached to every active
\* phase together with those of the phase's specification; for an
\* attribute both define the record has the value of the phase's class,
\* and among the classes of the extras argument the later one wins.  The
\* construction of a dog whose extras argument is not a list or tuple of
\* provider classes raises TypeError.
C13_ExtrasArgument ==
    /\ \A k \in 1..Len(init) :
            ~ProvidersGiven(plan.dogArgs[k].extras) =>
                ~init[k].ok /\ init[k].err = "TypeError"
    /\ Decorated =>
        \A layer \in Wrappers :
            ProvidersGiven(ArgsOf(layer).extras) =>
                ExtrasMerged(layer) /\ ExtrasApplied(layer)

\* The first part of C13 alone: what the classes of a well-formed extras
\* argument add to the records.
C13_Merging ==
    Decorated =>
        \A layer \in Wrappers :
            ProvidersGiven(ArgsOf(layer).extras) =>
                ExtrasMerged(layer) /\ ExtrasApplied(layer)

\* extras is [Plain], a class of no provider, or 0: the dog is constructed.
C13_NotRejected ==
    /\ Len(init) = 1
    /\ init[1].ok
    /\ plan.dogArgs[1].extras \in {PyList(<<Plain>>), PyInt(0)}

\* extras is [Extra1, Extra2], enter is 'msg' and exit is ['msg', Extra4]:
\* both events carry the attributes of Extra1 and Extra2.
C13_Merged ==
    /\ Decorated /\ Done
    /\ plan.dogArgs[1].extras = PyList(<<Extra1, Extra2>>)
    /\ plan.dogArgs[1].enter = Msg
    /\ plan.dogArgs[1].exit = PyList(<<Msg, Extra4>>)
    /\ \E i \in Events(2, "enter") :
            records[i].extra = [value |-> "Extra2", one |-> "Extra1", two |-> "Extra2"]
    /\ \E i \in Events(2, "exit") :
            records[i].extra = [value |-> "Extra2", one |-> "Extra1",
                                two |-> "Extra2", four |-> "Extra4"]

----------------------------------------------------------------------------
(* What an event costs                                                     *)

\* The computed arg-names the template of a phase refers to.
ComputedFields(a, phase) ==
    {FieldsOf(a, phase)[j] : j \in 1..Len(FieldsOf(a, phase))}
        \cap {<<COMPUTED_ARG_PREFIX, attr>> : attr \in {"value", "other", "third"}}

\* C14: for every event whose message the sink converts to text, every
\* method of the Computed provider that the template of the phase refers
\* to is called exactly once, however often the field is repeated and
\* however often the message is converted.
C14_ComputedOncePerEvent ==
    Decorated =>
        \A layer \in Wrappers, phase \in PhaseSet :
            \A i \in Calls(layer, phase) :
                records[i].converted > 0 =>
                    \A arg_name \in ComputedFields(ArgsOf(layer), phase) :
                        /\ arg_name \in DOMAIN records[i].computed_calls
                        /\ records[i].computed_calls[arg_name] = 1

\* What holds instead: the method is called once at each conversion of
\* the message, and so not at all when the message is never converted.
C14_OncePerConversion ==
    Decorated =>
        \A layer \in Wrappers, phase \in PhaseSet :
            \A i \in Calls(layer, phase) :
                \A arg_name \in ComputedFields(ArgsOf(layer), phase) :
                    IF records[i].converted > 0
                    THEN /\ arg_name \in DOMAIN records[i].computed_calls
                         /\ records[i].computed_calls[arg_name] = records[i].converted
                    ELSE arg_name \notin DOMAIN records[i].computed_calls

\* The sink has two handlers and enter is ['{>value}{>value}', Computer1,
\* Computer2]: value is called twice for the one enter event.
C14_CalledTwice ==
    /\ Decorated /\ Done
    /\ Len(plan.sink.handlers) = 2
    /\ \E i \in Events(2, "enter") :
            /\ records[i].message = <<"Computer2", "Computer2">>
            /\ records[i].converted = 2
            /\ records[i].computed_calls[<<COMPUTED_ARG_PREFIX, "value">>] = 2

\* The methods of the Computed providers of a phase, as computed
\* arg-names.
ComputedOffered(a, phase) ==
    LET computers == Attached(a, phase, "ComputedArgNames")
    IN  {<<COMPUTED_ARG_PREFIX, attr>> :
            attr \in UNION {computers[n].attrs : n \in 1..Len(computers)}}

\* C15: for every event, a method of the Computed providers of the phase
\* that the template of the phase does not refer to as a '>name' field is
\* not called.
C15_UnreferencedNotComputed ==
    Decorated =>
        \A layer \in Wrappers, phase \in PhaseSet :
            \A i \in Calls(layer, phase) :
                \A arg_name \in ComputedOffered(ArgsOf(layer), phase)
                                \ ComputedFields(ArgsOf(layer), phase) :
                    arg_name \notin DOMAIN records[i].computed_calls

\* The computed arg-names the providers of a phase name in their __args__.
ComputedDeclared(a, phase) ==
    LET providers == Attached(a, phase, "ComputedArgNames")
                        \o Attached(a, phase, "ExtraAttributes")
    IN  {arg_name \in UNION {{providers[n].args[m] : m \in 1..Len(providers[n].args)} :
                                n \in 1..Len(providers)} :
            arg_name[1] = COMPUTED_ARG_PREFIX}

\* What holds instead: a method that is called is referred to by the
\* template or named in the __args__ of a provider of the phase.
C15_ComputedAreRequested ==
    Decorated =>
        \A layer \in Wrappers, phase \in PhaseSet :
            \A i \in Calls(layer, phase) :
                DOMAIN records[i].computed_calls \subseteq
                    ComputedFields(ArgsOf(layer), phase)
                        \cup ComputedDeclared(ArgsOf(layer), phase)

\* enter is ['{>value}', Computer4] and Computer4 names '>other' in its
\* __args__: other is called for the enter event.
C15_UnreferencedCalled ==
    /\ Decorated /\ Done
    /\ plan.dogArgs[1].enter = PyList(<<PyStr(ComputedField("value")), Computer4>>)
    /\ \E i \in Events(2, "enter") :
            /\ records[i].message = <<"Computer4">>
            /\ <<COMPUTED_ARG_PREFIX, "other">> \in DOMAIN records[i].computed_calls

\* The methods of the Extra providers attached to a phase.
ExtraOffered(a, phase) ==
    LET extras == Attached(a, phase, "ExtraAttributes")
    IN  UNION {extras[n].attrs : n \in 1..Len(extras)}

\* C16: every record a phase emits has one field for every public method
\* of the Extra providers attached to the phase, and no other field of
\* theirs, with the value the method returned, whatever the template
\* refers to; the record the body of the wrapped function leaves has none
\* of these fields.
C16_ExtraFieldsOnRecord ==
    Decorated =>
        /\ \A layer \in Wrappers, phase \in PhaseSet :
            \A i \in Events(layer, phase) :
                LET a == ArgsOf(layer)
                IN  /\ DOMAIN records[i].extra = ExtraOffered(a, phase)
                    /\ \A attr \in ExtraOffered(a, phase) :
                        /\ records[i].extra_calls[attr] = 1
                        /\ \E n \in Defining(Attached(a, phase, "ExtraAttributes"), attr) :
                            records[i].extra[attr] =
                                Attached(a, phase, "ExtraAttributes")[n].name
        /\ \A i \in BodyRecords : DOMAIN records[i].extra = {}

\* enter is ['msg', Extra4], whose template refers to nothing: the enter
\* record has the field four, the record of the body has no field.
C16_Witness ==
    /\ Decorated /\ Done
    /\ plan.dogArgs[1].enter = PyList(<<Msg, Extra4>>)
    /\ plan.dogArgs[1].extras = PyTuple(<<>>)
    /\ \E i \in Events(2, "enter") :
            /\ records[i].extra = [four |-> "Extra4"]
            /\ records[i].message = <<>>
    /\ \E i \in BodyRecords : DOMAIN records[i].extra = {}

\* C17 as stated: for every call of the sink by a phase that has Extra
\* providers attached, every method of theirs is called, also when the
\* sink discards the event.
C17_ExtrasAlwaysEvaluated ==
    Decorated =>
        \A layer \in Wrappers, phase \in PhaseSet :
            \A i \in Calls(layer, phase) :
                \A attr \in ExtraOffered(ArgsOf(layer), phase) :
                    /\ attr \in DOMAIN records[i].extra_calls
                    /\ records[i].extra_calls[attr] = 1

\* C17, amended: when the logger is enabled for the level of the event,
\* every method of the Extra providers of the phase is called once as the
\* record is made, whether or not a handler takes the record and the
\* message is converted to text; when the logger is not enabled for the
\* level, no record is made and no method of theirs is called.
C17_ExtrasEvaluatedWithRecord ==
    Decorated =>
        \A layer \in Wrappers, phase \in PhaseSet :
            \A i \in Calls(layer, phase) :
                IF records[i].level >= plan.sink.level
                THEN /\ records[i].kind = "log"
                     /\ \A attr \in ExtraOffered(ArgsOf(layer), phase) :
                            /\ attr \in DOMAIN records[i].extra_calls
                            /\ records[i].extra_calls[attr] = 1
                ELSE /\ records[i].kind = "dropped"
                     /\ DOMAIN records[i].extra_calls = {}

\* The logger takes every level and its handler only WARNING and above;
\* enter is ['msg', Extra4] at INFO and exit is at ERROR with Extra3: four
\* is called for the enter record, which no handler converts, and three
\* for the exit record.
C17_Witness ==
    /\ Decorated /\ Done
    /\ plan.sink = [level |-> DEBUG, handlers |-> <<WARNING>>]
    /\ \E i \in Events(2, "enter") :
            /\ records[i].converted = 0
            /\ records[i].extra_calls = [four |-> 1]
    /\ \E i \in Events(2, "exit") :
            /\ records[i].converted = 1
            /\ records[i].extra_calls = [three |-> 1]

\* The logger drops what is below WARNING; enter is ['msg', Extra4] at
\* INFO: the enter event is dropped and four is not called.
C17_Dropped ==
    /\ Decorated /\ Done
    /\ plan.sink.level = WARNING
    /\ plan.dogArgs[1].enter = PyList(<<Msg, Extra4>>)
    /\ \E i \in Calls(2, "enter") :
            /\ records[i].kind = "dropped"
            /\ DOMAIN records[i].extra_calls = {}

\* C18: when the sink converts the message of an event to text not once
\* and reads no attribute of a provider, then for that event nothing is
\* substituted in the template, no dictionary of arg-names is built, no
\* computed arg-name is worked out and the arguments of the call are not
\* bound to the parameters.
C18_LazyMessage ==
    Decorated =>
        \A layer \in Wrappers, phase \in PhaseSet :
            \A i \in Calls(layer, phase) :
                (records[i].converted = 0 /\ DOMAIN records[i].extra_calls = {}) =>
                    /\ ~records[i].rendered
                    /\ records[i].message = <<>>
                    /\ records[i].built = 0
                    /\ records[i].args = EmptyDict
                    /\ DOMAIN records[i].computed_calls = {}
                    /\ records[i].bound = 0

\* The logger has no handler and enter and exit are '{bar}': both events
\* reach the sink, and after the call nothing was built and the arguments
\* were never bound.
C18_Witness ==
    /\ Decorated /\ Done
    /\ plan.sink = [level |-> DEBUG, handlers |-> <<>>]
    /\ plan.dogArgs[1].enter = PyStr(Field(Name("bar")))
    /\ plan.dogArgs[1].exit = PyStr(Field(Name("bar")))
    /\ \E i \in Events(2, "enter") : records[i].converted = 0 /\ records[i].built = 0
    /\ \E i \in Events(2, "exit") : records[i].converted = 0 /\ records[i].binds = 0

\* The calls of the sink by layer, in the order of the records.
CallsOf(layer) == UNION {Calls(layer, phase) : phase \in PhaseSet}

\* The phase requires a parameter of the function.
NeedsArguments(layer, phase) == Guard(layer).regular_arg_names[phase] # {}

\* C19: during one invocation of the wrapper the arguments of the call are
\* bound to the parameters at most once; they are bound for an event only
\* when its phase requires a regular arg-name and its dictionary is built,
\* and on the first such event; every later event of the invocation that
\* needs them gets the same mapping without binding again.
C19_ArgumentsBoundOnce ==
    Decorated =>
        \A layer \in Wrappers :
            /\ Cardinality({i \in CallsOf(layer) : records[i].bound > 0}) <= 1
            /\ \A i \in CallsOf(layer) :
                LET needed == /\ NeedsArguments(layer, records[i].phase)
                              /\ records[i].built > 0
                    earlier == \E j \in CallsOf(layer) :
                                    j < i /\ records[j].bound > 0
                IN  /\ records[i].bound = IF needed /\ ~earlier THEN 1 ELSE 0
                    /\ needed =>
                        \A n \in DOMAIN plan.callargs :
                            /\ n \in DOMAIN records[i].args
                            /\ records[i].args[n] = plan.callargs[n]

\* enter and exit are '{bar}' with the sink of the tests: the arguments
\* are bound for the enter event, and the exit event has the same mapping
\* without binding.
C19_Witness ==
    /\ Decorated /\ Done
    /\ plan.dogArgs[1].enter = PyStr(Field(Name("bar")))
    /\ plan.dogArgs[1].exit = PyStr(Field(Name("bar")))
    /\ \E i \in Events(2, "enter") :
            records[i].bound = 1 /\ records[i].message = <<"cake">>
    /\ \E i \in Events(2, "exit") :
            /\ records[i].bound = 0
            /\ records[i].built = 1
            /\ records[i].message = <<"cake">>
            /\ records[i].binds = 1

----------------------------------------------------------------------------
(* The names providers ask for                                             *)

\* The arg-names the providers attached to a phase name in their
\* __args__, those of the extras argument included; a phase without
\* specification has no provider.
Declared(a, phase) ==
    IF a[phase].t = "NoneType" THEN {}
    ELSE LET providers == Attached(a, phase, "ExtraAttributes")
                            \o Attached(a, phase, "ComputedArgNames")
         IN  UNION {{providers[n].args[m] : m \in 1..Len(providers[n].args)} :
                        n \in 1..Len(providers)}

DeclaredSpecial(a, phase) == {n \in Declared(a, phase) : n[1] = "@"}
DeclaredRegular(a) ==
    UNION {{n \in Declared(a, phase) : n[1] \notin {"@", ">"}} : phase \in PhaseSet}

\* The special arg-names a template of the phase may refer to.
Legal(a, phase) ==
    IF phase = "error" /\ a.propagate_exception
    THEN Allowed(phase) \ {<<"@", "ret">>}
    ELSE Allowed(phase)

\* C20: in the runs about the names providers ask for, the construction
\* of a dog fails with ValueError exactly when a provider attached to an
\* active phase, through the specification of the phase or through the
\* extras argument, names a special arg-name a template of that phase
\* may not refer to; and the decoration of a function fails with
\* TypeError, naming the arg-names, exactly when such a provider names a
\* regular arg-name that is no parameter of the function.
C20_DependenciesValidated ==
    plan.family = "dependencies" =>
        /\ \A k \in 1..Len(init) :
            LET a == plan.dogArgs[k]
                illegal == \E phase \in PhaseSet :
                                ~(DeclaredSpecial(a, phase) \subseteq Legal(a, phase))
            IN  /\ init[k].ok = ~illegal
                /\ illegal => init[k].err = "ValueError"
        /\ \A k \in 1..Len(deco) :
            LET unknown == DeclaredRegular(plan.dogArgs[plan.layers[k]])
                                \ FormalParameters(plan.func)
            IN  /\ deco[k].ok = (unknown = {})
                /\ ~deco[k].ok =>
                        /\ deco[k].err = "TypeError"
                        /\ deco[k].names = unknown

\* The extras argument holds a class that asks for @ret and only the
\* enter phase is active: the construction fails with ValueError.
C20_Witness ==
    /\ plan.family = "dependencies"
    /\ Len(init) = 1
    /\ plan.dogArgs[1].extras = PyList(<<Needing("ExtraAttributes", ARG_RET)>>)
    /\ plan.dogArgs[1].enter = Msg
    /\ plan.dogArgs[1].exit = PyNone
    /\ plan.dogArgs[1].error = PyNone
    /\ ~init[1].ok
    /\ init[1].err = "ValueError"

\* The exit phase has a Computed provider that asks for bear and the
\* function is foo(bar, baz): the decoration fails with TypeError.
C20_WitnessRegular ==
    /\ plan.family = "dependencies"
    /\ Len(deco) = 1
    /\ plan.dogArgs[1].exit = PyList(<<Msg, Needing("ComputedArgNames", Name("bear"))>>)
    /\ plan.func = FooBarBaz
    /\ ~deco[1].ok
    /\ deco[1].err = "TypeError"
    /\ deco[1].names = {Name("bear")}

----------------------------------------------------------------------------
(* The dictionary a provider sees                                          *)

\* The value an arg-name has for the event of phase that layer emits: a
\* special arg-name by the contract of the wrapper, a regular arg-name by
\* the arguments of the call.
ValueFor(layer, phase, n) ==
    CASE n = <<"@", "func">> -> plan.func.name
      [] n = <<"@", "line">> -> plan.func.line
      [] n = <<"@", "pathname">> -> plan.func.pathname
      [] n = <<"@", "ret">> ->
            IF phase = "exit" /\ Ends(layer - 1).kind = "return"
            THEN Ends(layer - 1).value
            ELSE Guard(layer).default_ret
      [] n = <<"@", "err">> -> Ends(layer - 1).exc
      [] OTHER -> plan.callargs[n]

\* A method of a provider of the phase ran for the event at position i
\* and the dictionary of the event was built.
ProviderSaw(i) ==
    /\ records[i].built > 0
    /\ DOMAIN records[i].extra_calls \cup DOMAIN records[i].computed_calls # {}

\* The arg-names a provider of the phase names in its __args__, the
\* computed ones left aside.
Dependencies(a, phase) == {n \in Declared(a, phase) : n[1] # ">"}

\* The first half of C21: the dictionary a provider sees has every regular
\* and special arg-name the providers of the phase name in __args__, with
\* the value of this call and this event.
C21_DeclaredAvailable ==
    Decorated =>
        \A layer \in Wrappers, phase \in PhaseSet :
            \A i \in Calls(layer, phase) :
                ProviderSaw(i) =>
                    \A n \in Dependencies(ArgsOf(layer), phase) :
                        /\ n \in DOMAIN records[i].context
                        /\ records[i].context[n] = ValueFor(layer, phase, n)

\* C21: the dictionary a provider sees has every arg-name the providers of
\* the phase name in __args__, with the value of this call and this event;
\* and it is empty when they name none and the template of the phase
\* refers to no regular and no special arg-name.
C21_ProviderContext ==
    /\ C21_DeclaredAvailable
    /\ Decorated =>
        \A layer \in Wrappers, phase \in PhaseSet :
            \A i \in Calls(layer, phase) :
                ( /\ ProviderSaw(i)
                  /\ Dependencies(ArgsOf(layer), phase) = {}
                  /\ \A j \in 1..Len(FieldsOf(ArgsOf(layer), phase)) :
                        FieldsOf(ArgsOf(layer), phase)[j][1] = ">" ) =>
                    records[i].context = EmptyDict

\* error is ['msg', Extra4], Extra4 names nothing in __args__ and the dog
\* swallows the exception: four sees an empty dictionary.
C21_SeesNothing ==
    /\ Decorated /\ Done
    /\ plan.dogArgs[1].error = PyList(<<Msg, Extra4>>)
    /\ \E i \in Events(2, "error") :
            /\ records[i].extra_calls = [four |-> 1]
            /\ records[i].built = 1
            /\ records[i].context = EmptyDict

\* exit is (ERROR, '{bar}{>third}', Computer3, Extra3): the methods see bar
\* and baz with the values of the call.
C21_SeesArguments ==
    /\ Decorated /\ Done
    /\ plan.dogArgs[1].exit.t = "tuple"
    /\ \E i \in Events(2, "exit") :
            /\ records[i].extra_calls = [three |-> 1]
            /\ records[i].context[Name("bar")] = "cake"
            /\ records[i].context[Name("baz")] = "lie"

----------------------------------------------------------------------------
(* Computed arg-names at construction                                      *)

\* The computed arg-names a phase requires, through its template or the
\* __args__ of a provider.
RequiredComputed(a, phase) ==
    IF a[phase].t = "NoneType" THEN {}
    ELSE {n \in Required(a, phase) : n # <<>> /\ n[1] = ">"}

\* The name after the prefix; nothing when the prefix stands alone.
AfterPrefix(n) == IF Len(n) > 1 THEN n[2] ELSE ""

\* A computed arg-name the Computed providers of the phase do not supply
\* as a public method.
Unsupplied(a, phase, n) ==
    \/ AfterPrefix(n) \in {"_", "_hidden"}
    \/ <<">", AfterPrefix(n)>> \notin ComputedOffered(a, phase)

\* C22: in the runs about computed arg-names, the construction of a dog
\* fails with ValueError when a phase requires a computed arg-name whose
\* name after the prefix begins with an underscore or is no public method
\* of the Computed providers of that phase (there may be none), and
\* succeeds when every computed arg-name required is supplied.
C22_ComputedNamesSupplied ==
    plan.family = "computed" =>
        \A k \in 1..Len(init) :
            LET a == plan.dogArgs[k]
                unsupplied == \E phase \in PhaseSet :
                                \E n \in RequiredComputed(a, phase) :
                                    Unsupplied(a, phase, n)
            IN  /\ init[k].ok = ~unsupplied
                /\ unsupplied => init[k].err = "ValueError"

\* The same, leaving aside the dogs that require the prefix alone.
C22_ExceptThePrefixAlone ==
    plan.family = "computed" =>
        \A k \in 1..Len(init) :
            LET a == plan.dogArgs[k]
                unsupplied == \E phase \in PhaseSet :
                                \E n \in RequiredComputed(a, phase) :
                                    Unsupplied(a, phase, n)
            IN  (\A phase \in PhaseSet : <<">">> \notin RequiredComputed(a, phase)) =>
                    /\ init[k].ok = ~unsupplied
                    /\ unsupplied => init[k].err = "ValueError"

\* enter is ['{>}', Computer2]: the construction raises IndexError.
C22_IndexError ==
    /\ Len(init) = 1
    /\ plan.dogArgs[1].enter = PyList(<<PyStr(Field(<<COMPUTED_ARG_PREFIX>>)), Computer2>>)
    /\ ~init[1].ok
    /\ init[1].err = "IndexError"

\* enter is the bare string '{>value}' and exit ['{>value}', Computer2]:
\* the enter phase has no provider and the construction fails.
C22_NoProvider ==
    /\ Len(init) = 1
    /\ plan.dogArgs[1].enter = PyStr(ComputedField("value"))
    /\ plan.dogArgs[1].exit = PyList(<<PyStr(ComputedField("value")), Computer2>>)
    /\ ~init[1].ok
    /\ init[1].err = "ValueError"

----------------------------------------------------------------------------
(* Runs with two functions decorated by one dog, called more than once     *)

MaxCalls == 2           \* calls of the decorated functions in a run
MaxAssignments == 2     \* assignments to the logger attribute in a run

\* def bar, next to foo in the same module.
Bar(func) == [func EXCEPT !.name = "bar"]

\* The loggers the caller assigns.
Loggers == {"altfoo", "altbar"}
\* An assignment that lands on every wrapper of the same original function,
\* as if the layers shared one logger attribute.
set_logger_of_function(callables, i, logger) ==
    [j \in DOMAIN callables |->
        IF callables[j].t = "wrapper"
            /\ callables[j].wrapped_func = callables[i].wrapped_func
        THEN [callables[j] EXCEPT !.logger = logger]
        ELSE callables[j]]

\* The logger is kept by the dog: every function it decorated changes.
set_logger_of_guard(callables, i, logger) ==
    [j \in DOMAIN callables |->
        IF callables[j].t = "wrapper" /\ callables[j].closure = callables[i].closure
        THEN [callables[j] EXCEPT !.logger = logger]
        ELSE callables[j]]

\* callables[i].logger = logger
set_logger(callables, i, logger) == [callables EXCEPT ![i].logger = logger]

\* One dog with 'enter {@logger}', 'exit {@logger}' and 'error {@logger}',
\* given a logger or none, decorates foo and bar.
LoggerPlan(p) ==
    \E logger \in {"", "alt"}, propagate \in BOOLEAN, behaviour \in Behaviours :
        p = Plan("logger",
                 <<[DogArgs(PyStr(Field(ARG_LOGGER)), PyStr(Field(ARG_LOGGER)),
                            PyStr(Field(ARG_LOGGER)), propagate, "Exception")
                        EXCEPT !.logger = logger]>>,
                 <<1, 1>>, FooNoArgs, behaviour)

InitLoggers ==
    /\ LoggerPlan(plan)
    /\ dogs = <<>>
    /\ init = <<>>
    /\ chain = <<plan.func, Bar(plan.func)>>
    /\ deco = <<>>
    /\ stack = <<>>
    /\ records = <<>>
    /\ clock = 0
    /\ outcome = [kind |-> "none", value |-> "", exc |-> NoExc, tb |-> <<>>]
    /\ cache = EmptyDict
    /\ threads = <<>>

\* The decorated functions of the run.
Decorations == {i \in 1..Len(chain) : chain[i].t = "wrapper"}

\* The positions in records of the marks of one kind.
Marks(kind) == {p \in 1..Len(records) : records[p].kind = kind}

\* foo = dog(foo), then bar = dog(bar): decoration k is of function k.
DecorateFunction ==
    /\ Len(init) = Len(plan.dogArgs)
    /\ \A k \in 1..Len(init) : init[k].ok
    /\ Len(deco) < Len(plan.layers)
    /\ LET self == dogs[plan.layers[Len(deco) + 1]]
           res == dog_call(self, chain, Len(deco) + 1)
       IN  /\ deco' = Append(deco, res)
           /\ chain' = IF res.ok THEN Append(chain, res.wrapper) ELSE chain
    /\ UNCHANGED <<plan, cache, threads, dogs, init, stack, records, clock, outcome>>

\* foo.logger = logger or bar.logger = logger between two calls, or the
\* original function assigns the logger of one of its running wrappers
\* (every wrapper of the call has read its logger by then); the
\* assignment is marked in records.
AssignLogger ==
    /\ Len(deco) = Len(plan.layers)
    /\ stack # <<>> => Top.pc = "body"
    /\ Cardinality(Marks("assign")) < MaxAssignments
    /\ \E i \in Decorations, logger \in Loggers :
            /\ stack # <<>> => \E n \in 1..Len(stack) : stack[n].callee = i
            /\ chain' = set_logger(chain, i, logger)
            /\ records' = Append(records,
                    [kind |-> "assign", layer |-> i, logger |-> logger])
    /\ UNCHANGED <<plan, cache, threads, dogs, init, deco, stack, clock, outcome>>

\* foo() or bar(); the call is marked in records.
CallFunction ==
    /\ Len(deco) = Len(plan.layers)
    /\ stack = <<>>
    /\ Cardinality(Marks("call")) < MaxCalls
    /\ \E i \in Decorations :
            /\ stack' = <<Frame(chain, i)>>
            /\ records' = Append(records,
                    [kind |-> "call", layer |-> i, logger |-> ""])
    /\ outcome' = [kind |-> "none", value |-> "", exc |-> NoExc, tb |-> <<>>]
    /\ UNCHANGED <<plan, cache, threads, dogs, init, chain, deco, clock>>

NextLoggers ==
    \/ Construct
    \/ DecorateFunction
    \/ AssignLogger
    \/ CallFunction
    \/ WrapperEnter
    \/ Body
    \/ WrapperReturn
    \/ WrapperExcept

SpecLoggers == InitLoggers /\ [][NextLoggers]_vars

\* Runs about the loggers of a function decorated twice: the inner dog
\* names the logger "in", the outer dog names "out" or none, and every
\* phase of both logs '{@logger}'; propagation matters when foo raises.
LayeredPlan(p) ==
    \E logger \in {"", "out"}, propagate \in BOOLEAN, behaviour \in Behaviours :
        LET layer(name) ==
                [DogArgs(PyStr(Field(ARG_LOGGER)), PyStr(Field(ARG_LOGGER)),
                         PyStr(Field(ARG_LOGGER)), propagate, "Exception")
                    EXCEPT !.logger = name]
        IN  /\ behaviour.kind = "return" => propagate
            /\ p = Plan("layered", <<layer("in"), layer(logger)>>, <<1, 2>>,
                        FooNoArgs, behaviour)

\* foo = outer(inner(foo)): DecorateFunction decorates foo, then the
\* wrapper it made.
InitLayered ==
    /\ LayeredPlan(plan)
    /\ Start

SpecLayered == InitLayered /\ [][NextLoggers]_vars

----------------------------------------------------------------------------
(* The logger of a decorated function                                      *)

\* The greatest position of S below p, 0 when there is none.
LastBelow(S, p) ==
    LET below == {q \in S : q < p}
    IN  IF below = {} THEN 0
        ELSE CHOOSE q \in below : \A r \in below : r <= q

\* The logger decoration gave to a function: the logger of the dog, or the
\* logger named after the module of the function.
LoggerAtDecoration ==
    IF plan.dogArgs[1].logger = "" THEN plan.func.module
    ELSE plan.dogArgs[1].logger

\* The logger last assigned to function i before position p of records,
\* or the logger decoration gave it.
LoggerOf(i, p) ==
    LET last == LastBelow({q \in Marks("assign") : records[q].layer = i}, p)
    IN  IF last = 0 THEN LoggerAtDecoration ELSE records[last].logger

\* C23: every decorated function has a logger of its own, set at
\* decoration; every event of an invocation goes to the logger that was
\* last assigned to the called function before the invocation began (the
\* logger of decoration when none was), @logger is that logger, and
\* assignments to the other function decorated by the same dog change
\* nothing for it.
C23_LoggerPerFunction ==
    /\ \A i \in Decorations :
            stack = <<>> => chain[i].logger = LoggerOf(i, Len(records) + 1)
    /\ \A p \in Marks("log") \cup Marks("dropped") :
            LET call == LastBelow(Marks("call"), p)
                logger == LoggerOf(records[p].layer, call)
            IN  /\ call > 0
                /\ records[call].layer = records[p].layer
                /\ records[p].logger = logger
                /\ records[p].args[ARG_LOGGER] = logger
                /\ records[p].message = <<logger>>

\* foo.logger is assigned, then bar and foo are called: the events of bar
\* went to the logger of decoration and those of foo to the new logger.
C23_Witness ==
    /\ stack = <<>>
    /\ Cardinality(Marks("assign")) = 1
    /\ \E a \in Marks("assign"), p \in Marks("log"), q \in Marks("log") :
            /\ a < p /\ p < q
            /\ records[a].logger = "altfoo"
            /\ records[p].layer # records[a].layer
            /\ records[p].logger = LoggerAtDecoration
            /\ records[q].layer = records[a].layer
            /\ records[q].logger = "altfoo"
            /\ records[q].phase = "exit"

----------------------------------------------------------------------------
(* Two invocations of one decorated function at the same time              *)

\* The special arg-names whose builders dog.__call__ makes once for the
\* decorated function, in the order the wrapper hands them to _log.
FunctionBuilders == <<ARG_PATHNAME, ARG_LINE, ARG_FUNC>>

\* What the function of such a builder returns.
BuilderValue(wrapped_func, name) ==
    CASE name = ARG_PATHNAME -> wrapped_func.pathname
      [] name = ARG_LINE -> wrapped_func.line
      [] name = ARG_FUNC -> wrapped_func.name

\* run_once as it leaves a function: func.done = False, func.ret not set.
\* The builders that were never called are not in cache.
Cached(name) ==
    IF name \in DOMAIN cache THEN cache[name]
    ELSE [done |-> FALSE, set |-> FALSE, ret |-> ""]

\* The arguments every invocation binds are those of the first.
first_invocation_args(calls, t) == calls[1].callargs

\* *args and **kwargs of the invocation of thread t, which its own
\* build_func_arguments_args binds.
invocation_args(calls, t) == calls[t].callargs

\* One dog whose three phases log '{@func}{bar}', with @ret, @err and
\* @time where they are supported.  The dictionary of an event is asked
\* for by the handler that formats the message, or before that by an
\* Extra method when the record is made.  One thread calls
\* foo('cake', 'lie') and another foo('pie', 'lie'); each call returns or
\* raises.
ThreadPlan(p) ==
    \E trigger \in {"message", "extra"}, propagate \in BOOLEAN,
       first \in BOOLEAN, second \in BOOLEAN :
        LET common == Field(ARG_FUNC) \o Field(Name("bar"))
            spec(template) ==
                IF trigger = "message" THEN PyStr(template)
                ELSE PyList(<<PyStr(template), Extra4>>)
            does(returns, n, value) ==
                IF returns
                THEN [kind |-> "return", value |-> value, exc |-> NoExc]
                ELSE [kind |-> "raise", value |-> "",
                      exc |-> [cls |-> "ZeroDivisionError", id |-> n]]
            a == DogArgs(spec(common),
                         spec(common \o Field(ARG_RET) \o Field(ARG_TIME)),
                         spec(common \o Field(ARG_ERR) \o Field(ARG_TIME)),
                         propagate, "Exception")
        IN  p = [trigger |-> trigger,
                 calls |-> <<[callargs |-> CallArgs(FooBarBaz),
                              behaviour |-> does(first, 1, "r1")],
                             [callargs |-> [CallArgs(FooBarBaz)
                                                EXCEPT ![Name("bar")] = "pie"],
                              behaviour |-> does(second, 2, "r2")]>>]
                @@ Plan("threads", <<a>>, <<1>>, FooBarBaz, does(first, 1, "r1"))

InitThreads ==
    /\ ThreadPlan(plan)
    /\ Start

NoResult == [kind |-> "none", value |-> "", exc |-> NoExc, tb |-> <<>>]

\* The AttributeError of func.ret, as it leaves the wrapper; the frames
\* between logger.log and the builder are left out.
NoSuchAttribute(phase) ==
    [kind |-> "raise", value |-> "",
     exc |-> [cls |-> "AttributeError", id |-> 0],
     tb |-> <<AtLog(phase), Entry("dog.py", 864, "_log"),
              Entry("chew_toys.py", 88, "wrapper")>>]

\* The thread th goes on to log the event of phase with the frame fr: the
\* builders of the decorated function that the phase needs are called
\* first, one under the other or under the lock of the handler.
Event(th, fr, phase) ==
    LET self == chain[fr.callee].closure
        todo == IF need_log(self, phase)
                THEN SelectSeq(FunctionBuilders,
                        LAMBDA name : name \in self.special_arg_names[phase])
                ELSE <<>>
    IN  [th EXCEPT !.fr = fr, !.phase = phase, !.todo = todo,
                   !.got = EmptyDict,
                   !.pc = IF todo = <<>> THEN "log"
                          ELSE IF plan.trigger = "message" THEN "locked"
                          ELSE "test"]

\* The thread th got value from the first builder of todo.
Got(th, value) ==
    [th EXCEPT !.got = (Head(th.todo) :> value) @@ th.got,
               !.todo = Tail(th.todo),
               !.pc = IF Tail(th.todo) = <<>> THEN "log" ELSE "test"]

\* A thread calls the decorated function: wrapper reads its logger and
\* goes on to the enter event.
Invoke ==
    /\ Len(deco) = Len(plan.layers)
    /\ \A k \in 1..Len(deco) : deco[k].ok
    /\ Len(threads) < Len(plan.calls)
    /\ LET w == chain[Len(chain)]
           fr == [Frame(chain, Len(chain)) EXCEPT !.logger = w.logger]
           th == [fr |-> fr, phase |-> "", pc |-> "", todo |-> <<>>,
                  got |-> EmptyDict, result |-> NoResult]
       IN  threads' = Append(threads, Event(th, fr, "enter"))
    /\ UNCHANGED <<plan, dogs, init, chain, deco, stack, records, clock,
                   outcome, cache>>

\* run_once, wrapper: if func.done
RunOnceTest ==
    \E t \in 1..Len(threads) :
        /\ threads[t].pc = "test"
        /\ threads' = [threads EXCEPT ![t].pc =
                IF Cached(Head(threads[t].todo)).done THEN "cached" ELSE "run"]
        /\ UNCHANGED <<plan, dogs, init, chain, deco, stack, records, clock,
                       outcome, cache>>

\* run_once, wrapper: return func.ret; AttributeError when ret is not set.
RunOnceCached ==
    \E t \in 1..Len(threads) :
        /\ threads[t].pc = "cached"
        /\ LET func == Cached(Head(threads[t].todo))
           IN  threads' = [threads EXCEPT ![t] =
                    IF func.set THEN Got(@, func.ret)
                    ELSE [@ EXCEPT !.pc = "done", !.result = NoSuchAttribute(threads[t].phase)]]
        /\ UNCHANGED <<plan, dogs, init, chain, deco, stack, records, clock,
                       outcome, cache>>

\* run_once, wrapper: ret = func(); func.done = True
RunOnceDone ==
    \E t \in 1..Len(threads) :
        /\ threads[t].pc = "run"
        /\ LET name == Head(threads[t].todo)
           IN  cache' = (name :> [Cached(name) EXCEPT !.done = TRUE]) @@ cache
        /\ threads' = [threads EXCEPT ![t].pc = "store"]
        /\ UNCHANGED <<plan, dogs, init, chain, deco, stack, records, clock,
                       outcome>>

\* run_once, wrapper: func.ret = ret; return ret
RunOnceRet ==
    \E t \in 1..Len(threads) :
        /\ threads[t].pc = "store"
        /\ LET name == Head(threads[t].todo)
               wrapped_func == chain[chain[threads[t].fr.callee].wrapped_func]
               ret == BuilderValue(wrapped_func, name)
           IN  /\ cache' = (name :> [Cached(name) EXCEPT !.set = TRUE,
                                                         !.ret = ret]) @@ cache
               /\ threads' = [threads EXCEPT ![t] = Got(@, ret)]
        /\ UNCHANGED <<plan, dogs, init, chain, deco, stack, records, clock,
                       outcome>>

\* The builders of todo called one after the other by the handler that
\* formats the message: it holds its lock, so that no other thread is
\* inside a builder meanwhile.
RunOnceLocked ==
    \E t \in 1..Len(threads) :
        /\ threads[t].pc = "locked"
        /\ LET todo == threads[t].todo
               names == {todo[n] : n \in 1..Len(todo)}
               wrapped_func == chain[chain[threads[t].fr.callee].wrapped_func]
               value(name) == IF Cached(name).done THEN Cached(name).ret
                              ELSE BuilderValue(wrapped_func, name)
           IN  /\ cache' = [name \in names |->
                                [done |-> TRUE, set |-> TRUE,
                                 ret |-> value(name)]] @@ cache
               /\ threads' = [threads EXCEPT ![t] =
                    [@ EXCEPT !.got = [name \in names |-> value(name)],
                              !.todo = <<>>, !.pc = "log"]]
        /\ UNCHANGED <<plan, dogs, init, chain, deco, stack, records, clock,
                       outcome>>

\* The event of the phase is logged with what the invocation holds, and
\* wrapper goes on: to the call after enter, to the end after exit; after
\* error the exception is raised again or default_ret is returned through
\* the exit event.
LogEvent ==
    \E t \in 1..Len(threads) :
        /\ threads[t].pc = "log"
        /\ LET th == threads[t]
               w == chain[th.fr.callee]
               self == w.closure
               event == log(th.fr.callee, th.fr, w, chain,
                            invocation_args(plan.calls, t), th.phase, plan.sink)
               fr == Logged(th.fr, <<event>>)
           IN  /\ records' = IF need_log(self, th.phase)
                             THEN Append(records,
                                    [thread |-> t, got |-> th.got] @@ event)
                             ELSE records
               /\ threads' = [threads EXCEPT ![t] =
                    CASE th.phase = "enter" -> [th EXCEPT !.fr = fr, !.pc = "calling"]
                      [] th.phase = "exit" ->
                            [th EXCEPT !.fr = fr, !.pc = "done",
                                       !.result = Return(fr.ret)]
                      [] th.phase = "error" ->
                            IF self.propagate
                            THEN [th EXCEPT !.fr = fr, !.pc = "done",
                                    !.result = RaiseExc(fr.exc,
                                        <<AtRaise>> \o next_traceback(fr.tb))]
                            ELSE Event(th, [fr EXCEPT !.ret = self.default_ret],
                                       "exit")]
        /\ UNCHANGED <<plan, dogs, init, chain, deco, stack, clock, outcome,
                       cache>>

\* wrapper: start_time = _time() when a phase needs @time, then func is
\* called.
StartCall ==
    \E t \in 1..Len(threads) :
        /\ threads[t].pc = "calling"
        /\ LET timed == needs_time_arg(chain[threads[t].fr.callee].closure)
           IN  /\ threads' = [threads EXCEPT ![t].pc = "body",
                    ![t].fr.start_time = IF timed THEN clock + 1 ELSE NoTime]
               /\ clock' = IF timed THEN clock + 1 ELSE clock
        /\ UNCHANGED <<plan, dogs, init, chain, deco, stack, records, outcome,
                       cache>>

\* func returns or raises; wrapper takes end_time when the phase that
\* follows needs @time and goes on to the exit or to the error event.  An
\* exception the except clause does not take leaves the wrapper.
EndCall ==
    \E t \in 1..Len(threads) :
        /\ threads[t].pc = "body"
        /\ LET th == threads[t]
               self == chain[th.fr.callee].closure
               behaviour == plan.calls[t].behaviour
               returns == behaviour.kind = "return"
               timed == IF returns THEN exit_needs_time_arg(self)
                        ELSE error_needs_time_arg(self)
               fr == [th.fr EXCEPT
                        !.end_time = IF timed THEN clock + 1 ELSE NoTime,
                        !.ret = behaviour.value,
                        !.exc = behaviour.exc,
                        !.tb = IF returns THEN <<>>
                               ELSE <<AtCall, InBody(chain[1])>>]
               caught == Matches(behaviour.exc, self.catch)
           IN  /\ threads' = [threads EXCEPT ![t] =
                    IF returns THEN Event(th, fr, "exit")
                    ELSE IF caught THEN Event(th, fr, "error")
                    ELSE [th EXCEPT !.pc = "done",
                            !.result = RaiseExc(behaviour.exc, fr.tb)]]
               /\ clock' = IF timed /\ (returns \/ caught) THEN clock + 1
                           ELSE clock
        /\ UNCHANGED <<plan, dogs, init, chain, deco, stack, records, outcome,
                       cache>>

NextThreads ==
    \/ Construct
    \/ Decorate
    \/ Invoke
    \/ RunOnceTest
    \/ RunOnceCached
    \/ RunOnceDone
    \/ RunOnceRet
    \/ RunOnceLocked
    \/ LogEvent
    \/ StartCall
    \/ EndCall

SpecThreads == InitThreads /\ [][NextThreads]_vars

----------------------------------------------------------------------------
(* Invocations at the same time: the cached builders                       *)

\* What the caller of thread t receives by the contract of the wrapper.
Owed(t) ==
    LET behaviour == plan.calls[t].behaviour
        self == chain[Len(chain)].closure
    IN  IF behaviour.kind = "return" THEN Return(behaviour.value)
        ELSE IF self.propagate
        THEN RaiseExc(behaviour.exc, <<AtRaise, InBody(chain[1])>>)
        ELSE Return(self.default_ret)

\* Every call of a builder of the decorated function returned the value
\* of the builder.
GotTheValues ==
    /\ \A t \in 1..Len(threads) :
            \A name \in DOMAIN threads[t].got :
                threads[t].got[name] = BuilderValue(chain[1], name)
    /\ \A p \in 1..Len(records) :
            \A name \in DOMAIN records[p].got :
                records[p].got[name] = BuilderValue(chain[1], name)

\* C24: however the steps of two invocations of one decorated function
\* follow each other, every call of a cached builder returns the value of
\* the builder, no invocation sees func.done set while func.ret is not,
\* and every invocation ends as the wrapper owes: with the value or the
\* exception of the function, or default_ret.
C24_CachedBuildersSafe ==
    /\ GotTheValues
    /\ \A t \in 1..Len(threads) :
            /\ threads[t].pc = "cached" => Cached(Head(threads[t].todo)).set
            /\ threads[t].pc = "done" => threads[t].result = Owed(t)

\* The same when the dictionary of an event is only asked for by the
\* handler that formats the message.
C24_SafeUnderTheLock ==
    plan.trigger = "message" =>
        /\ GotTheValues
        /\ \A t \in 1..Len(threads) :
                /\ threads[t].pc = "cached" => Cached(Head(threads[t].todo)).set
                /\ threads[t].pc = "done" => threads[t].result = Owed(t)

\* An Extra method asks for the dictionary: the second thread finds
\* func.done set by the first, which has not set func.ret yet, and its
\* invocation ends with AttributeError before its enter event.
C24_AttributeError ==
    /\ plan.trigger = "extra"
    /\ Len(threads) = 2
    /\ threads[1].pc = "store"
    /\ threads[2].pc = "done"
    /\ threads[2].result = NoSuchAttribute("enter")
    /\ records = <<>>

\* Both invocations ran to their end under the lock.
C24_BothEnded ==
    /\ plan.trigger = "message"
    /\ Len(threads) = 2
    /\ \A t \in 1..2 : threads[t].pc = "done" /\ threads[t].result = Owed(t)

----------------------------------------------------------------------------
(* Invocations at the same time: the context of a call                     *)

\* What the fields of the message of an event of thread t are owed to be:
\* @func and bar in every phase, then @ret or @err, then @time.
OwedMessage(t, phase) ==
    LET call == plan.calls[t]
        fr == threads[t].fr
        self == chain[Len(chain)].closure
        common == <<chain[1].name, call.callargs[Name("bar")]>>
        elapsed == fr.end_time - fr.start_time
    IN  CASE phase = "enter" -> common
          [] phase = "exit" ->
                common \o <<IF call.behaviour.kind = "return"
                            THEN call.behaviour.value
                            ELSE self.default_ret, elapsed>>
          [] phase = "error" -> common \o <<call.behaviour.exc, elapsed>>

\* C25: every event of an invocation that runs at the same time as
\* another is rendered with the arguments its own call bound, the value
\* its own call returned (default_ret after an exception that was
\* swallowed), the exception its own call raised and the time between
\* its own two timestamps, which were both taken.
C25_OwnContext ==
    \A p \in 1..Len(records) :
        LET t == records[p].thread
            phase == records[p].phase
        IN  /\ records[p].rendered
            /\ records[p].message = OwedMessage(t, phase)
            /\ records[p].args[Name("bar")] = plan.calls[t].callargs[Name("bar")]
            /\ phase # "enter" =>
                    /\ threads[t].fr.start_time # NoTime
                    /\ threads[t].fr.end_time > threads[t].fr.start_time

\* The second call began and ended between the two timestamps of the
\* first; the first returned and the second raised, and the four events
\* are there.
C25_Witness ==
    /\ Len(threads) = 2
    /\ \A t \in 1..2 : threads[t].pc = "done"
    /\ threads[1].fr.start_time < threads[2].fr.start_time
    /\ threads[2].fr.end_time < threads[1].fr.end_time
    /\ plan.calls[1].behaviour.kind = "return"
    /\ plan.calls[2].behaviour.kind = "raise"
    /\ \E p, q \in 1..Len(records) :
            /\ p < q
            /\ records[p].thread = 2 /\ records[p].phase = "error"
            /\ records[q].thread = 1 /\ records[q].phase = "exit"

----------------------------------------------------------------------------
(* @traceback                                                              *)

\* The frames an exception that leaves chain[layer] went through, the
\* outermost first: the body of the function, and above it every wrapper
\* the exception left, at its raise statement when it caught the exception
\* and at its call of func when it did not.
RECURSIVE StackOf(_)
StackOf(layer) ==
    IF layer = 1 THEN <<<<plan.func.pathname, plan.func.line + 1, plan.func.name>>>>
    ELSE <<<<"dog.py",
             IF Guard(layer).catch \in ExcBases(plan.behaviour.exc.cls)
             THEN 741 ELSE 674,
             "wrapper">>>> \o StackOf(layer - 1)

----------------------------------------------------------------------------
(* @time                                                                   *)

\* The dictionary of the event at position i was built with @time as a
\* number: the difference of two timestamps that were taken.
TimeDefined(i) ==
    /\ ARG_TIME \in DOMAIN records[i].args
    /\ records[i].args[ARG_TIME] > 0
    /\ records[i].converted > 0 => records[i].rendered

\* C27: whenever the dictionary of an event of a phase that requires
\* @time is built, the start and the end timestamp were both taken and
\* @time is a number; also for the exit event that follows an exception
\* that was caught and swallowed, whatever the error phase requires.
C27_TimeCaptured ==
    (plan.family = "special" /\ Decorated) =>
        \A layer \in Wrappers, phase \in {"exit", "error"} :
            \A i \in Events(layer, phase) :
                (ARG_TIME \in Guard(layer).special_arg_names[phase]
                    /\ records[i].converted > 0) => TimeDefined(i)

\* The same, leaving aside the exit event that follows a swallowed
\* exception when the error phase does not require @time.
C27_UnlessSwallowedUntimed ==
    (plan.family = "special" /\ Decorated) =>
        \A layer \in Wrappers, phase \in {"exit", "error"} :
            \A i \in Events(layer, phase) :
                ( /\ ARG_TIME \in Guard(layer).special_arg_names[phase]
                  /\ records[i].converted > 0
                  /\ ~ ( /\ phase = "exit"
                         /\ plan.behaviour.kind = "raise"
                         /\ ~error_needs_time_arg(Guard(layer)) ) ) =>
                    TimeDefined(i)

\* exit is '{@time}', the error phase does not log, the dog swallows the
\* exception of foo: the exit event is logged and cannot be rendered.
C27_NoEndTime ==
    /\ plan.family = "special" /\ Decorated /\ Done
    /\ plan.dogArgs[1].exit = PyStr(Field(ARG_TIME))
    /\ plan.dogArgs[1].error = PyNone
    /\ outcome = Return("d123")
    /\ \E i \in Events(2, "exit") :
            /\ ~records[i].rendered
            /\ ARG_TIME \notin DOMAIN records[i].args

\* exit is '{@time}' and foo returns: @time is the difference of the two
\* timestamps.
C27_Timed ==
    /\ plan.family = "special" /\ Decorated /\ Done
    /\ plan.dogArgs[1].exit = PyStr(Field(ARG_TIME))
    /\ \E i \in Events(2, "exit") :
            /\ records[i].rendered
            /\ records[i].args[ARG_TIME] = 1

----------------------------------------------------------------------------
(* What the dictionary of an event holds                                   *)

\* The special and the regular arg-names in a dictionary.
SpecialIn(d) == {n \in DOMAIN d : n[1] = SPECIAL_ARG_PREFIX}
RegularIn(d) == {n \in DOMAIN d : n[1] \notin {SPECIAL_ARG_PREFIX, COMPUTED_ARG_PREFIX}}

\* The positions in records of the events of layer and phase whose
\* dictionary was built.
Built(layer, phase) == {i \in Calls(layer, phase) : records[i].built > 0}

\* C28: the dictionary basic_builder assembles for an event has a special
\* arg-name only if the phase requires it and a parameter of the function
\* only if the phase requires that regular arg-name.
C28_OnlyRequired ==
    Decorated =>
        \A layer \in Wrappers, phase \in PhaseSet :
            \A i \in Built(layer, phase) :
                /\ SpecialIn(records[i].context)
                        \subseteq Guard(layer).special_arg_names[phase]
                /\ RegularIn(records[i].context)
                        \subseteq Guard(layer).regular_arg_names[phase]

\* What holds instead: the special arg-names are those the phase
\* requires, and the parameters are all there as soon as the phase
\* requires one regular arg-name, and none is there otherwise.
C28_AllParametersOrNone ==
    Decorated =>
        \A layer \in Wrappers, phase \in PhaseSet :
            \A i \in Built(layer, phase) :
                /\ SpecialIn(records[i].context)
                        \subseteq Guard(layer).special_arg_names[phase]
                /\ RegularIn(records[i].context) =
                        IF Guard(layer).regular_arg_names[phase] = {} THEN {}
                        ELSE DOMAIN plan.callargs

\* A provider of the exit phase names bar in __args__ and the template is
\* 'msg': the dictionary of the exit event of foo(bar, baz) has baz too.
C28_Unrequired ==
    /\ Decorated
    /\ \E i \in Built(2, "exit") :
            /\ Guard(2).regular_arg_names["exit"] = {Name("bar")}
            /\ RegularIn(records[i].context) = {Name("bar"), Name("baz")}

----------------------------------------------------------------------------
(* The dictionary of an event is built once                                *)

\* Something asked for the dictionary of the event at position i: a
\* handler that converted the message (the methods of a Computed provider
\* run then), or a method of an Extra provider that consults self._args.
AskedFor(i, layer, phase) ==
    \/ records[i].converted > 0
    \/ \E attr \in DOMAIN records[i].extra_calls :
            provider_reads(mro(Guard(layer).extras[phase]), attr)

\* The arg-names whose value depends on the event or on the call.
OfTheEvent(d) == RegularIn(d) \cup (DOMAIN d \cap {ARG_FUNC, ARG_RET, ARG_ERR})

\* C29: for one event basic_builder runs its builders once if anything
\* asks for the dictionary, however many handlers convert the message and
\* however many provider methods consult it, and not at all otherwise;
\* the dictionary of every event is built for that event, with the values
\* of its own phase.
C29_BuiltOncePerEvent ==
    Decorated =>
        \A layer \in Wrappers, phase \in PhaseSet :
            \A i \in Calls(layer, phase) :
                /\ records[i].built = IF AskedFor(i, layer, phase) THEN 1 ELSE 0
                /\ \A n \in OfTheEvent(records[i].context) :
                        records[i].context[n] = ValueFor(layer, phase, n)

\* Two handlers convert the message of the enter event '{bar}{>third}'
\* with Computer3 and Extra3, whose methods consult self._args: the
\* dictionary was built once; the exit event that follows has a
\* dictionary of its own, built once as well.
C29_Witness ==
    /\ Decorated /\ Done
    /\ \E i \in Events(2, "enter"), j \in Events(2, "exit") :
            /\ records[i].converted = 2
            /\ records[i].extra_calls = [three |-> 1]
            /\ records[i].computed_calls # EmptyDict
            /\ records[i].built = 1
            /\ records[j].converted = 2
            /\ records[j].built = 1

----------------------------------------------------------------------------
(* The names a failed construction reports                                 *)

\* The special arg-names phase requires and may not use.
Offending(a, phase) == RequiredSpecial(a, phase) \ Allowed(phase)

\* The first phase, in the order of the checks, that requires a special
\* arg-name it may not use.
FirstOffending(a) ==
    CHOOSE phase \in PhaseSet :
        /\ Offending(a, phase) # {}
        /\ \A q \in PhaseSet :
                (\E n \in 1..Len(Phases) : \E m \in 1..Len(Phases) :
                    n < m /\ Phases[n] = q /\ Phases[m] = phase) =>
                        Offending(a, q) = {}

\* C30 as stated: the ValueError of a construction that fails for special
\* arg-names a phase may not use names every such arg-name of the three
\* phases.
C30_AllPhasesReported ==
    PlainFields =>
        \A k \in 1..Len(init) :
            LET a == plan.dogArgs[k]
            IN  ~SpecialNamesAllowed(a) =>
                    /\ ~init[k].ok
                    /\ init[k].err = "ValueError"
                    /\ init[k].names = UNION {Offending(a, phase) : phase \in PhaseSet}

\* C30, amended: the ValueError names every special arg-name that the
\* first phase with such a name, in the order enter, exit, error, may not
\* use, and none of the later phases.
C30_FirstPhaseReported ==
    PlainFields =>
        \A k \in 1..Len(init) :
            LET a == plan.dogArgs[k]
            IN  ~SpecialNamesAllowed(a) =>
                    /\ ~init[k].ok
                    /\ init[k].err = "ValueError"
                    /\ init[k].names = Offending(a, FirstOffending(a))

\* enter is '{@ret}{@err}' and exit '{@bogus}{@traceback}{@func}': the
\* error reports @ret and @err, the two names of the enter phase.
C30_Witness ==
    /\ plan.family = "unsupported"
    /\ Len(init) = 1
    /\ plan.dogArgs[1].enter = PyStr(Field(ARG_RET) \o Field(ARG_ERR))
    /\ plan.dogArgs[1].exit # PyNone
    /\ Offending(plan.dogArgs[1], "exit") =
            {<<SPECIAL_ARG_PREFIX, "bogus">>, ARG_TRACEBACK}
    /\ ~init[1].ok
    /\ init[1].names = {ARG_RET, ARG_ERR}

\* ---------------------------------------------------------------------------
\* C31: every configuration error is raised while the guard is constructed
\* or while a function is decorated, so no invocation of a decorated function
\* ends with an exception that dog._log raised on account of the guard's own
\* arguments; construction and decoration call no function and log nothing.
C31_NothingRunsBeforeCall ==
    (Len(deco) < Len(plan.layers) \/ \E k \in 1..Len(deco) : ~deco[k].ok)
        => records = <<>> /\ stack = <<>> /\ outcome.kind = "none"

C31_RaisedInLog ==
    /\ outcome.kind = "raise"
    /\ outcome.exc.cls = "TypeError"
    /\ \E n \in 1..Len(outcome.tb) : outcome.tb[n] = Entry("dog.py", 846, "_log")

C31_ConfigurationErrorsEarly ==
    (stack = <<>> /\ Len(deco) = Len(plan.layers)) => ~C31_RaisedInLog

\* ---------------------------------------------------------------------------
\* C32: when emitting the enter event raises, that exception reaches the
\* caller as it is, the wrapped function is not called in that invocation
\* and no error or exit event is emitted, also when the exception is of a
\* class the guard catches.
C32_EnterFails ==
    /\ need_log(Guard(2), "enter")
    /\ ~instantiable(Guard(2).extras["enter"])

C32_EnterFailurePropagates ==
    (Done /\ C32_EnterFails) =>
        /\ outcome.kind = "raise"
        /\ outcome.exc = [cls |-> "TypeError", id |-> 0]
        /\ outcome.tb = <<AtLog("enter"), Entry("dog.py", 846, "_log")>>
        /\ BodyRecords = {}
        /\ \A phase \in PhaseSet : Calls(2, phase) = {}

C32_Witness ==
    /\ Done
    /\ C32_EnterFails
    /\ plan.family = "raising"
    /\ need_log(Guard(2), "error")
    /\ need_log(Guard(2), "exit")
    /\ Matches(outcome.exc, Guard(2).catch)
    /\ ~Guard(2).propagate

\* ---------------------------------------------------------------------------
\* C33: when emitting the error event raises, the new exception reaches the
\* caller in place of the exception of the function, with propagation on
\* or off: default_ret is not returned and no exit event is emitted.
C33_ErrorFails ==
    /\ BodyRecords # {}
    /\ plan.behaviour.kind = "raise"
    /\ Matches(plan.behaviour.exc, Guard(2).catch)
    /\ need_log(Guard(2), "error")
    /\ ~instantiable(Guard(2).extras["error"])

C33_ErrorFailureReplaces ==
    (Done /\ C33_ErrorFails) =>
        /\ outcome.kind = "raise"
        /\ outcome.exc = [cls |-> "TypeError", id |-> 0]
        /\ outcome.exc # plan.behaviour.exc
        /\ outcome.tb = <<AtLog("error"), Entry("dog.py", 846, "_log")>>
        /\ Calls(2, "error") = {}
        /\ Calls(2, "exit") = {}

C33_Witness ==
    /\ Done
    /\ C33_ErrorFails
    /\ ~Guard(2).propagate
    /\ need_log(Guard(2), "exit")

C33_WitnessPropagating ==
    /\ Done
    /\ C33_ErrorFails
    /\ Guard(2).propagate
    /\ need_log(Guard(2), "exit")

\* ---------------------------------------------------------------------------
\* C34: a function is wrapped by two guards that do not propagate and it
\* raises an exception the inner guard catches.  The inner guard logs its
\* error event, then its exit event, and returns its default_ret; the
\* outer guard sees a return: it logs no error event, logs its exit event
\* with @ret equal to the default_ret of the inner guard, and returns
\* that value.
C34_Case ==
    /\ plan.family = "double"
    /\ Decorated /\ Done
    /\ plan.behaviour.kind = "raise"
    /\ ~plan.dogArgs[1].propagate_exception
    /\ ~plan.dogArgs[2].propagate_exception
    /\ plan.dogArgs[1].catch \in ExcBases(plan.behaviour.exc.cls)

C34_InnerHandles ==
    C34_Case =>
        /\ Cardinality(Events(2, "error")) = Expect(2, "error")
        /\ Cardinality(Events(2, "exit")) = Expect(2, "exit")
        /\ \A i \in Events(2, "error"), j \in Events(2, "exit") : i < j
        /\ \A j \in Events(2, "exit") :
                /\ records[j].rendered
                /\ records[j].args[ARG_RET] = plan.dogArgs[1].default_ret
        /\ Events(3, "error") = {}
        /\ Cardinality(Events(3, "exit")) = Expect(3, "exit")
        /\ \A i \in Events(2, "exit"), j \in Events(3, "exit") : i < j
        /\ \A j \in Events(3, "exit") :
                /\ records[j].rendered
                /\ records[j].args[ARG_RET] = plan.dogArgs[1].default_ret
        /\ outcome.kind = "return"
        /\ outcome.value = plan.dogArgs[1].default_ret
        /\ outcome.value # plan.dogArgs[2].default_ret

C34_Witness ==
    /\ C34_Case
    /\ plan.dogArgs[2].catch = "Exception"
    /\ Cardinality(Events(2, "error")) = 1
    /\ Cardinality(Events(2, "exit")) = 1
    /\ Cardinality(Events(3, "exit")) = 1
    /\ Active(3, "error")

\* ---------------------------------------------------------------------------
\* C35: the logger of an invocation is read once, when the invocation
\* starts: its enter, error and exit events go to that logger and show it
\* as @logger, also when the logger attribute of the function is assigned
\* while the invocation is in flight; the assignment shows in the
\* invocations that start after it.
C35_LoggerReadOnce ==
    \A p \in Marks("log") \cup Marks("dropped") :
        LET call == LastBelow(Marks("call"), p)
            atStart == LoggerOf(records[p].layer, call)
        IN  /\ records[p].logger = atStart
            /\ records[p].args[ARG_LOGGER] = atStart
            /\ \A q \in Marks("log") \cup Marks("dropped") :
                    (LastBelow(Marks("call"), q) = call
                        /\ records[q].layer = records[p].layer) =>
                        records[q].logger = records[p].logger

\* foo is called and logs enter to its first logger; foo.logger is
\* assigned while foo runs; the exit event still goes to the first logger
\* and the events of the next call of foo go to the assigned one.
C35_Witness ==
    \E c \in Marks("call"), a \in Marks("assign"), d \in Marks("call"),
       p \in Marks("log"), q \in Marks("log"), r \in Marks("log") :
        /\ c < p /\ p < a /\ a < q /\ q < d /\ d < r
        /\ records[c].layer = records[a].layer
        /\ records[d].layer = records[a].layer
        /\ records[p].phase = "enter"
        /\ records[q].phase = "exit"
        /\ records[r].phase = "enter"
        /\ records[p].logger = LoggerAtDecoration
        /\ records[q].logger = LoggerAtDecoration
        /\ records[a].logger # LoggerAtDecoration
        /\ records[r].logger = records[a].logger
        /\ records[r].message = <<records[a].logger>>

\* ---------------------------------------------------------------------------
\* C36: each layer of a function wrapped twice keeps its own logger: an
\* assignment to the logger attribute of the outer wrapper changes the sink
\* of the outer guard's events only, and the events of the inner guard go
\* on to the logger the inner wrapper holds.
C36_AtDecoration(i) ==
    LET logger == plan.dogArgs[plan.layers[i - 1]].logger
    IN  IF logger = "" THEN plan.func.module ELSE logger

C36_Held(i, p) ==
    LET last == LastBelow({q \in Marks("assign") : records[q].layer = i}, p)
    IN  IF last = 0 THEN C36_AtDecoration(i) ELSE records[last].logger

C36_LoggerPerLayer ==
    /\ \A i \in Decorations :
            stack = <<>> => chain[i].logger = C36_Held(i, Len(records) + 1)
    /\ \A p \in Marks("log") \cup Marks("dropped") :
            LET held == C36_Held(records[p].layer, LastBelow(Marks("call"), p))
            IN  /\ records[p].logger = held
                /\ records[p].args[ARG_LOGGER] = held
                /\ records[p].message = <<held>>

\* The logger of the outer wrapper is assigned and the function is called
\* through it: the outer enter event goes to the assigned logger, the
\* inner enter event to the logger of the inner dog.
C36_Witness ==
    \E a \in Marks("assign"), c \in Marks("call"), p \in Marks("log"),
       q \in Marks("log") :
        /\ a < c /\ c < p /\ p < q
        /\ Cardinality(Marks("assign")) = 1
        /\ records[a].layer = 3 /\ records[a].logger = "altfoo"
        /\ records[c].layer = 3
        /\ records[p].layer = 3 /\ records[p].phase = "enter"
        /\ records[p].logger = "altfoo"
        /\ records[q].layer = 2 /\ records[q].phase = "enter"
        /\ records[q].logger = "in"

\* ---------------------------------------------------------------------------
\* C37: however many times a function is wrapped, every layer checks its
\* regular arg-names against the parameters of the original function and
\* binds the arguments against it, @func of every layer is the original
\* function, and every layer calls the callable it decorated, the next
\* wrapper inward.
C37_Innermost ==
    /\ PlainFields =>
        \A k \in 2..Len(deco) :
            deco[k].ok =
                (RequiredRegular(plan.dogArgs[plan.layers[k]])
                    \subseteq FormalParameters(plan.func))
    /\ \A layer \in Wrappers :
            /\ chain[layer].wrapped_func = 1
            /\ chain[layer].wrapped = layer - 1
    /\ \A p \in 1..Len(records) :
            records[p].kind = "log" =>
                /\ ARG_FUNC \in DOMAIN records[p].args =>
                        records[p].args[ARG_FUNC] = plan.func.name
                /\ ARG_PATHNAME \in DOMAIN records[p].args =>
                        records[p].args[ARG_PATHNAME] = plan.func.pathname
                /\ \A n \in DOMAIN records[p].args \cap DOMAIN plan.callargs :
                        records[p].args[n] = plan.callargs[n]
    /\ (Decorated /\ Done /\ Len(chain) >= 3) =>
            /\ Cardinality(BodyRecords) = 1
            /\ \A layer \in Wrappers :
                    Cardinality(Events(layer, "enter")) = Expect(layer, "enter")

\* Both layers log '{bar}{@func}' at enter: the outer layer, which
\* decorated a wrapper taking (*args, **kwargs), accepted bar and shows
\* the original function and its argument.
C37_Witness ==
    /\ plan.family = "double"
    /\ Decorated /\ Done
    /\ \E p \in Events(3, "enter"), q \in Events(2, "enter") :
            /\ p < q
            /\ records[p].rendered
            /\ records[p].args[ARG_FUNC] = "foo"
            /\ records[p].args[Name("bar")] = "cake"
            /\ records[q].args[ARG_FUNC] = "foo"
    /\ chain[3].args = <<>>
    /\ chain[3].wrapped = 2
    /\ chain[3].wrapped_func = 1

\* ---------------------------------------------------------------------------
\* C38: the arg-names a phase requires fall into three pairwise disjoint
\* sets that together are all of them: the names that start with '>' are
\* computed, of the others those that start with '@' are special, the rest
\* are regular; a disabled phase has three empty sets, whatever the
\* providers of the extras argument name.
C38_Whole(a, phase) ==
    IF a[phase].t = "NoneType" THEN {}
    ELSE Required(a, phase) \cup Declared(a, phase)

C38_Categories ==
    \A k \in 1..Len(init) :
        init[k].ok =>
            \A phase \in PhaseSet :
                LET whole == C38_Whole(plan.dogArgs[k], phase)
                    computed == init[k].computed_arg_names[phase]
                    special == init[k].special_arg_names[phase]
                    regular == init[k].regular_arg_names[phase]
                IN  /\ computed \cup special \cup regular = whole
                    /\ computed \cap special = {}
                    /\ computed \cap regular = {}
                    /\ special \cap regular = {}
                    /\ computed = {n \in whole : n # <<>> /\ n[1] = ">"}
                    /\ special = {n \in whole \ computed : n # <<>> /\ n[1] = "@"}
                    /\ regular = (whole \ computed) \ special

\* The enter phase has names of the three categories, from its format
\* string and from the provider of the extras argument, and the disabled
\* exit phase has none although that provider is attached to it as well.
C38_Witness ==
    /\ plan.family = "categories"
    /\ Len(init) = 1 /\ init[1].ok
    /\ plan.dogArgs[1].extras = PyList(<<Extra6>>)
    /\ plan.dogArgs[1].exit = PyNone
    /\ init[1].computed_arg_names["enter"] =
            {<<">", "value">>, <<">", "other">>}
    /\ init[1].special_arg_names["enter"] = {ARG_FUNC, ARG_LINE}
    /\ init[1].regular_arg_names["enter"] = {Name("bar"), Name("baz")}
    /\ init[1].extras["exit"] # PyNone
    /\ init[1].regular_arg_names["exit"] = {}

====
